---- MODULE Spec2Model ----
(***************************************************************************)
(* DeviceAsWebcam native core: the producer/consumer buffer pool           *)
(* (Buffer.cpp), the UVC PROBE/COMMIT negotiation (UVCProvider.cpp), and   *)
(* the streaming session with its three threads (UVC listener, encoder     *)
(* worker, host ingress).                                                  *)
(*                                                                         *)
(* Three specifications share the variables below:                         *)
(*   SpecPool / FairSpecPool  the BufferManager under an arbitrary client  *)
(*   SpecCtl                  the control plane of one opened UVCDevice    *)
(*   Spec                     one service run with its concurrent threads  *)
(***************************************************************************)
EXTENDS Integers, Sequences, FiniteSets, TLC

(***************************************************************************)
(* Bounds of the model (not program constants).                            *)
(***************************************************************************)
\* timestamps handed to encodeImage range over 0..MaxTs
MaxTs == 2
\* format catalogues hold 1..MaxFormats formats of 1..MaxFrames frames, each frame with
\* up to MaxIntervals frame intervals
MaxFormats == 2
MaxFrames == 2
MaxIntervals == 3
\* advertised frame intervals are multiples of IntervalStep (100 ns units; 166666 = 60 fps)
IntervalStep == 166666
\* one service run sees at most MaxImages encodeImage calls and MaxSessions STREAMON events
MaxImages == 4
MaxSessions == 1

(***************************************************************************)
(* Program constants.                                                      *)
(***************************************************************************)
NUM_BUFFERS_ALLOC == 4
USB_PAYLOAD_TRANSFER_SIZE == 3072
FRAME_INTERVAL_NUM == 10000000
UINT8_MAX == 255
CONTROL_INTERFACE_IDX == 0
STREAMING_INTERFACE_IDX == 1

\* BufferManager::BufferState
IN_USE == "IN_USE"
FILLED == "FILLED"
FREE == "FREE"

VARIABLES
    \* ---- BufferManager (Buffer.h) ----
    mProducerBufferItems,   \* sequence of [buffer, state]; C++ index i is element i+1
    mConsumerBufferItem,    \* [buffer, state]
    mTimestamp,             \* Buffer::mTimestamp of each allocated buffer (by v4l2 index)
    \* ---- the consumer inside getFilledBufferAndSwap ----
    consumerPc,             \* "idle" | "locked" | "waiting"
    cvNotified,             \* a notify_one of mProducerBufferFilled reached the waiter
    \* ---- history of the last completed getFilledBufferAndSwap ----
    lastTake,
    \* ---- UVCProvider::UVCDevice control plane (UVCProvider.h) ----
    formats,                \* mUVCProperties->streaming.formats, enumerated at open
    mProbe,                 \* struct uvc_streaming_control
    mCommit,                \* struct uvc_streaming_control
    mCurrentControlState,   \* "UNDEFINED" | "PROBE" | "COMMIT" | other selector
    mV4l2Format,            \* the fields of mV4l2Format.fmt.pix that commitControls sets
    mFps,
    ctlFault,               \* "none", or the undefined behaviour the device ran into
    \* ---- history: the last UVC event processed and what it sent to the driver ----
    lastEvent,
    \* ---- DeviceAsWebcamServiceManager (DeviceAsWebcamServiceManager.h) ----
    mServiceRunning,
    mSerializationLock,     \* the thread that holds it, or "free"
    mJniThread,             \* "none" | "stopService" (inside the Java call) | "finished"
    \* ---- UVCProvider / UVCDevice handles (UVCProvider.h) ----
    mUVCDevice,             \* TRUE while UVCProvider::mUVCDevice is non-null
    mFrameProvider,         \* TRUE while UVCDevice::mFrameProvider is non-null
    mEpollOut,              \* TRUE while the V4L2 fd is watched for EPOLLOUT
    \* ---- Encoder of the session (Encoder.h) and its worker thread ----
    mRequestLock,           \* the thread that holds it, or "free"
    mRequestQueue,          \* sequence of EncodeRequest
    mContinueEncoding,
    mConfig,                \* the CameraConfig the encoder was built with
    encoderPc,
    workerRequest,          \* encodeThreadLoop's local EncodeRequest request
    \* ---- hardware buffers the host passed in, by the number of the encodeImage call ----
    hardwareBuffers,        \* "none" | "held" (acquired and locked) | "released"
    \* ---- the host thread inside DeviceAsWebcamServiceManager::encodeImage ----
    ingressPc,
    ingressCall,
    calls,
    \* ---- the UVC listener thread ----
    listenerOp,             \* the event it is handling
    listenerPc,
    takePc,                 \* its position inside getFilledBufferAndSwap
    driverQueue,            \* the buffers VIDIOC_QBUF gave the gadget driver, oldest first
    sessions,
    \* ---- the process ----
    crashed,
    \* ---- history ----
    accepted,               \* encodeImage calls whose request was enqueued
    lastDelivered,          \* timestamp of the last buffer queued to the gadget, -1 if none
    deliveredInOrder,       \* FALSE once a session delivered a timestamp below its previous
    lastIngress,            \* outcome of the last encodeImage call that returned
    \* ---- UVCProvider's listener thread and the thread of the Java service ----
    mListenToUVCFds,        \* volatile bool UVCProvider::mListenToUVCFds
    pendingEvents,          \* what epoll_wait returned behind the event being handled
    mainPc,                 \* the Java service's thread inside onDestroy, or "idle"
    \* ---- history: the calls across the JNI boundary that begin and end service and
    \* ---- stream (setupServicesAndStartListening with its result, the notifications)
    jniLog


poolVars == <<mProducerBufferItems, mConsumerBufferItem, mTimestamp>>
consumerVars == <<consumerPc, cvNotified, lastTake>>
ctlVars == <<formats, mProbe, mCommit, mCurrentControlState, mV4l2Format, mFps, ctlFault,
             lastEvent>>
svcVars == <<mServiceRunning, mSerializationLock, mJniThread>>
devVars == <<mUVCDevice, mFrameProvider, mEpollOut>>
encVars == <<mRequestLock, mRequestQueue, mContinueEncoding, mConfig, encoderPc, workerRequest>>
ingressVars == <<ingressPc, ingressCall, calls>>
listenerVars == <<listenerOp, listenerPc, takePc, driverQueue, sessions>>
histVars == <<accepted, lastDelivered, deliveredInOrder, lastIngress>>
lifeVars == <<mListenToUVCFds, pendingEvents, mainPc, jniLog>>
sessionVars == <<svcVars, devVars, encVars, hardwareBuffers, ingressVars, listenerVars,
                 crashed, histVars, lifeVars>>
nonPoolVars == <<ctlVars, sessionVars>>
nonCtlVars == <<poolVars, consumerVars, sessionVars>>
vars == <<mProducerBufferItems, mConsumerBufferItem, mTimestamp, consumerPc, cvNotified,
          lastTake, formats, mProbe, mCommit, mCurrentControlState, mV4l2Format, mFps,
          ctlFault, lastEvent, mServiceRunning, mSerializationLock, mJniThread,
          mUVCDevice, mFrameProvider, mEpollOut, mRequestLock, mRequestQueue,
          mContinueEncoding, mConfig, encoderPc, workerRequest, hardwareBuffers, ingressPc,
          ingressCall, calls, listenerOp, listenerPc, takePc, driverQueue, sessions, crashed,
          accepted,
          lastDelivered, deliveredInOrder, lastIngress, mListenToUVCFds, pendingEvents,
          mainPc, jniLog>>

Timestamps == 0..MaxTs
BufferIds == 0..(NUM_BUFFERS_ALLOC - 1)

(***************************************************************************)
(* BufferManager                                                           *)
(***************************************************************************)

\* BufferItem(buf, st)
BufferItem(buf, st) == [buffer |-> buf, state |-> st]

\* The pool as BufferManager's constructor leaves it after allocateAndMapBuffers:
\* v4l2 buffer 0 is the consumer buffer, 1..NUM_BUFFERS_ALLOC-1 the producer buffers.
ConstructedProducerItems == [i \in 1..(NUM_BUFFERS_ALLOC - 1) |-> BufferItem(i, FREE)]
ConstructedConsumerItem == BufferItem(0, FREE)

\* A scan that stops at the first producer item that is not IN_USE, Filled ones included.
RECURSIVE FirstFree_OrFilled(_, _)
FirstFree_OrFilled(items, i) ==
    IF i >= Len(items) THEN -1
    ELSE IF items[i + 1].state # IN_USE THEN i ELSE FirstFree_OrFilled(items, i + 1)

\* C++ index (0-based) of the first producer item in state FREE, or -1
RECURSIVE FirstFree(_, _)
FirstFree(items, i) ==
    IF i >= Len(items) THEN -1
    ELSE IF items[i + 1].state = FREE THEN i ELSE FirstFree(items, i + 1)

\* A getFreeBufferIfAvailable that hands the Free slot out without marking it IN_USE.
getFreeBufferIfAvailable_KeepsFree(items) ==
    LET i == FirstFree(items, 0) IN
    IF i < 0 THEN [buffer |-> -1, items |-> items]
    ELSE [buffer |-> items[i + 1].buffer, items |-> items]

\* getFreeBufferIfAvailable: [buffer |-> v4l2 index or -1 (nullptr), items |-> new items]
getFreeBufferIfAvailable(items) ==
    LET i == FirstFree(items, 0) IN
    IF i < 0 THEN [buffer |-> -1, items |-> items]
    ELSE [buffer |-> items[i + 1].buffer,
          items |-> [items EXCEPT ![i + 1].state = IN_USE]]

\* A variant of the scan that never updates ts after a match, so that any later FILLED
\* item with a non-zero timestamp replaces an earlier, newer one.
RECURSIVE ScanLatestFilled_NoTsUpdate(_, _, _, _)
ScanLatestFilled_NoTsUpdate(items, stamp, i, acc) ==
    IF i >= Len(items) THEN acc
    ELSE LET bufferItem == items[i + 1]
             bufferTs == stamp[bufferItem.buffer]
         IN IF bufferItem.state = FILLED /\ bufferTs > 0
            THEN ScanLatestFilled_NoTsUpdate(items, stamp, i + 1,
                     [found |-> TRUE, foundIndex |-> i, ts |-> bufferTs, index |-> i])
            ELSE ScanLatestFilled_NoTsUpdate(items, stamp, i + 1, acc)

\* The first loop of filledProducerBufferAvailableLocked: scan for the latest FILLED item.
\* acc = [found, foundIndex, ts, index]; index is the caller's *index.
RECURSIVE ScanLatestFilled(_, _, _, _)
ScanLatestFilled(items, stamp, i, acc) ==
    IF i >= Len(items) THEN acc
    ELSE LET bufferItem == items[i + 1]
             bufferTs == stamp[bufferItem.buffer]
         IN IF bufferItem.state = FILLED /\ bufferTs > acc.ts
            THEN ScanLatestFilled(items, stamp, i + 1,
                     [found |-> TRUE, foundIndex |-> i, ts |-> bufferTs, index |-> i])
            ELSE ScanLatestFilled(items, stamp, i + 1, acc)

\* The second loop: every FILLED item other than foundIndex goes back to FREE.
CancelOlder(items, foundIndex) ==
    [j \in 1..Len(items) |->
        IF items[j].state = FILLED /\ (j - 1) # foundIndex
        THEN [items[j] EXCEPT !.state = FREE]
        ELSE items[j]]

\* filledProducerBufferAvailableLocked(&index):
\* [found, index (the caller's variable afterwards), items]
filledProducerBufferAvailableLocked(items, stamp, index) ==
    LET acc == ScanLatestFilled(items, stamp, 0,
                   [found |-> FALSE, foundIndex |-> 0, ts |-> 0, index |-> index])
    IN [found |-> acc.found, index |-> acc.index,
        items |-> CancelOlder(items, acc.foundIndex)]

\* A swap that does not mark the consumer's new buffer IN_USE.
SwapWithConsumer_LeavesFilled(items, cons, index) ==
    [items |-> [items EXCEPT ![index + 1] = [cons EXCEPT !.state = FREE]],
     cons |-> items[index + 1]]

\* A swap that hands the Filled buffer to the consumer and leaves it in the slot too.
SwapWithConsumer_KeepsItem(items, cons, index) ==
    [items |-> [items EXCEPT ![index + 1].state = FREE],
     cons |-> [items[index + 1] EXCEPT !.state = IN_USE]]

\* The tail of getFilledBufferAndSwap once a filled buffer was found at `index`:
\* consumer item marked FREE, swapped with the producer item, new consumer item IN_USE.
SwapWithConsumer(items, cons, index) ==
    [items |-> [items EXCEPT ![index + 1] = [cons EXCEPT !.state = FREE]],
     cons |-> [items[index + 1] EXCEPT !.state = IN_USE]]

\* changeProducerBufferStateLocked: C++ index of the producer item holding `buffer`, or -1
RECURSIVE FindProducerItem(_, _, _)
FindProducerItem(items, buffer, i) ==
    IF i >= Len(items) THEN -1
    ELSE IF items[i + 1].buffer = buffer THEN i ELSE FindProducerItem(items, buffer, i + 1)

changeProducerBufferStateLocked(items, buffer, newState) ==
    LET i == FindProducerItem(items, buffer, 0) IN
    IF i < 0 THEN [ok |-> FALSE, items |-> items]
    ELSE [ok |-> TRUE, items |-> [items EXCEPT ![i + 1].state = newState]]

\* A cancel that marks the buffer Filled, as queueFilledBuffer does.
cancelBuffer_MarksFilled(items, buffer) ==
    changeProducerBufferStateLocked(items, buffer, FILLED)

\* cancelBuffer / queueFilledBuffer
cancelBuffer(items, buffer) == changeProducerBufferStateLocked(items, buffer, FREE)
queueFilledBuffer(items, buffer) == changeProducerBufferStateLocked(items, buffer, FILLED)

FilledSlots(items) == {i \in 1..Len(items) : items[i].state = FILLED}
InUseBuffers(items) == {items[i].buffer : i \in {j \in 1..Len(items) : items[j].state = IN_USE}}

\* the timestamps of the FILLED producer items
FilledTimestamps(items, stamp) == {stamp[items[i].buffer] : i \in FilledSlots(items)}

\* lastTake records, for the last getFilledBufferAndSwap that returned: the timestamps
\* that were FILLED when it selected, the timestamp of the buffer it returned, and how
\* many producer items were FILLED when it returned.
NoTake == [valid |-> FALSE]

(***************************************************************************)
(* UVC control plane: 32-bit unsigned values, the format catalogue, the    *)
(* uvc_streaming_control structure and its negotiation.                    *)
(***************************************************************************)
\* A uint32_t is the pair <<high 16 bits, low 16 bits>>, so that UINT32_MAX is a value
\* like any other.
U32(n) == <<n \div 65536, n % 65536>>
UINT32_MAX == <<65535, 65535>>
U32LessEq(a, b) == a[1] < b[1] \/ (a[1] = b[1] /\ a[2] <= b[2])
U32Less(a, b) == a[1] < b[1] \/ (a[1] = b[1] /\ a[2] < b[2])
\* n / d in uint32_t arithmetic, for 0 <= n < 2^31 and d # 0
U32Div(n, d) == IF d[1] >= 32768 THEN 0 ELSE n \div (d[1] * 65536 + d[2])

V4L2_PIX_FMT_YUYV == "YUYV"
V4L2_PIX_FMT_MJPEG == "MJPG"
V4L2_PIX_FMT_NV12 == "NV12"
NO_PIX_FMT == "0"
Fourccs == <<V4L2_PIX_FMT_YUYV, V4L2_PIX_FMT_MJPEG, V4L2_PIX_FMT_NV12>>

UVC_VS_CONTROL_UNDEFINED == "UNDEFINED"
UVC_VS_PROBE_CONTROL == "PROBE"
UVC_VS_COMMIT_CONTROL == "COMMIT"
\* a control selector of the streaming interface that the device does not implement
UVC_VS_STILL_PROBE_CONTROL == "STILL_PROBE"

FormatTriplet(formatIndex, frameSizeIndex, frameInterval) ==
    [formatIndex |-> formatIndex, frameSizeIndex |-> frameSizeIndex,
     frameInterval |-> frameInterval]
defaultFormatTriplet == FormatTriplet(1, 1, U32(0))
maxFormatTriplet == FormatTriplet(UINT8_MAX, UINT8_MAX, UINT32_MAX)

\* ConfigFrame as getFormatFrames/getFrameIntervals build it. The catalogue family gives
\* the frame with code c between 1 and MaxIntervals ascending intervals, starting at one
\* or two IntervalSteps.
ConfigFrame(r, c) ==
    [index |-> r - 1, width |-> 320 * r, height |-> 240 * r,
     intervals |-> [i \in 1..((c % MaxIntervals) + 1) |->
                        U32((i + ((c \div MaxIntervals) % 2)) * IntervalStep)]]

\* ConfigFormat as getFormats builds it.
ConfigFormat(f, w) ==
    [formatIndex |-> f - 1,
     fcc |-> Fourccs[((f + w) % 3) + 1],
     frames |-> [r \in 1..(((f - 1) % MaxFrames) + 1) |-> ConfigFrame(r, f * MaxFrames + r + w)]]

\* The catalogues a gadget driver can advertise within the bounds: at least one format,
\* at least one frame per format, at least one interval per frame, intervals ascending.
Catalogues ==
    { [f \in 1..n |-> ConfigFormat(f, w)] :
        n \in 1..MaxFormats, w \in 0..(MaxIntervals - 1) }

ZeroStreamingControl ==
    [bmHint |-> 0, bFormatIndex |-> 0, bFrameIndex |-> 0, dwFrameInterval |-> U32(0),
     wKeyFrameRate |-> 0, wPFrameRate |-> 0, wCompQuality |-> 0, wCompWindowSize |-> 0,
     wDelay |-> 0, dwMaxVideoFrameSize |-> 0, dwMaxPayloadTransferSize |-> 0,
     dwClockFrequency |-> 0, bmFramingInfo |-> 0, bPreferedVersion |-> 0,
     bMinVersion |-> 0, bMaxVersion |-> 0]

\* uint8_t chosen = requested > size ? size : requested
ClampIndex_ToFirst(requested, size) ==
    (IF requested > size THEN 1 ELSE requested) % (UINT8_MAX + 1)

ClampIndex(requested, size) ==
    (IF requested > size THEN size ELSE requested) % (UINT8_MAX + 1)

\* The for loop over chosenFrame.intervals: index of the first interval >= the request,
\* 0 when the loop ends with largerFound false.
RECURSIVE FirstIntervalAtLeast_Strict(_, _, _)
FirstIntervalAtLeast_Strict(intervals, reqFrameInterval, i) ==
    IF i > Len(intervals) THEN 0
    ELSE IF U32Less(reqFrameInterval, intervals[i]) THEN i
    ELSE FirstIntervalAtLeast_Strict(intervals, reqFrameInterval, i + 1)

RECURSIVE FirstIntervalAtLeast(_, _, _)
FirstIntervalAtLeast(intervals, reqFrameInterval, i) ==
    IF i > Len(intervals) THEN 0
    ELSE IF U32LessEq(reqFrameInterval, intervals[i]) THEN i
    ELSE FirstIntervalAtLeast(intervals, reqFrameInterval, i + 1)

ChooseFrameInterval_FirstWhenNone(intervals, reqFrameInterval) ==
    LET i == FirstIntervalAtLeast(intervals, reqFrameInterval, 1) IN
    IF i > 0 THEN intervals[i] ELSE intervals[1]

ChooseFrameInterval(intervals, reqFrameInterval) ==
    LET i == FirstIntervalAtLeast(intervals, reqFrameInterval, 1) IN
    IF i > 0 THEN intervals[i] ELSE intervals[Len(intervals)]

\* UVCDevice::setStreamingControl: the structure it leaves in *streamingControl.
setStreamingControl(streamingControl, req, fmts) ==
    LET chosenFormatIndex == ClampIndex(req.formatIndex, Len(fmts)) IN
    IF chosenFormatIndex <= 0 THEN streamingControl
    ELSE
    LET chosenFormat == fmts[chosenFormatIndex]
        chosenFrameIndex == ClampIndex(req.frameSizeIndex, Len(chosenFormat.frames))
    IN
    IF chosenFrameIndex <= 0 THEN streamingControl
    ELSE
    LET chosenFrame == chosenFormat.frames[chosenFrameIndex] IN
    [ZeroStreamingControl EXCEPT
        !.bmHint = 1,
        !.bmFramingInfo = 3,
        !.bPreferedVersion = 1,
        !.bMaxVersion = 1,
        !.bFormatIndex = chosenFormatIndex,
        !.bFrameIndex = chosenFrameIndex,
        !.dwFrameInterval = ChooseFrameInterval(chosenFrame.intervals, req.frameInterval),
        !.dwMaxPayloadTransferSize = USB_PAYLOAD_TRANSFER_SIZE,
        !.dwMaxVideoFrameSize =
            IF chosenFormat.fcc \in {V4L2_PIX_FMT_YUYV, V4L2_PIX_FMT_MJPEG}
            THEN chosenFrame.width * chosenFrame.height * 2
            ELSE 0]

ZeroV4l2Format ==
    [type |-> "0", width |-> 0, height |-> 0, pixelformat |-> NO_PIX_FMT,
     field |-> "ANY", sizeimage |-> 0]

\* UVCDevice::commitControls up to the VIDIOC_S_FMT ioctl. Indexing the catalogue with
\* a zero index and dividing by a zero interval are undefined behaviour: the result then
\* names the fault instead of a state.
commitControls(commit, fmts) ==
    IF commit.bFormatIndex < 1 \/ commit.bFormatIndex > Len(fmts)
    THEN [fault |-> "out_of_bounds"]
    ELSE
    LET commitFormat == fmts[commit.bFormatIndex] IN
    IF commit.bFrameIndex < 1 \/ commit.bFrameIndex > Len(commitFormat.frames)
    THEN [fault |-> "out_of_bounds"]
    ELSE
    LET commitFrame == commitFormat.frames[commit.bFrameIndex] IN
    IF commit.dwFrameInterval = U32(0)
    THEN [fault |-> "division_by_zero"]
    ELSE [fault |-> "none",
          mFps |-> U32Div(FRAME_INTERVAL_NUM, commit.dwFrameInterval),
          mV4l2Format |-> [type |-> "VIDEO_OUTPUT",
                           width |-> commitFrame.width,
                           height |-> commitFrame.height,
                           pixelformat |-> commitFormat.fcc,
                           field |-> "ANY",
                           sizeimage |-> commit.dwMaxVideoFrameSize]]

\* CameraConfig of a default-constructed (or absent) encoder
NoConfig == [width |-> 0, height |-> 0, fcc |-> NO_PIX_FMT, fps |-> 0]
NoRequest == [image |-> 0, buffer |-> -1, success |-> FALSE]
NoCall == [image |-> 0, timestamp |-> 0, buffer |-> -1, noFree |-> FALSE]
NoIngress == [outcome |-> "NONE"]
Images == 1..MaxImages

\* No streaming session exists, no thread is inside the core, the listener waits in epoll.
InitNoSession ==
    /\ mSerializationLock = "free"
    /\ mJniThread = "none"
    /\ mFrameProvider = FALSE
    /\ mEpollOut = FALSE
    /\ mRequestLock = "free"
    /\ mRequestQueue = <<>>
    /\ mContinueEncoding = TRUE
    /\ mConfig = NoConfig
    /\ encoderPc = "none"
    /\ workerRequest = NoRequest
    /\ hardwareBuffers = [i \in Images |-> "none"]
    /\ ingressPc = "idle"
    /\ ingressCall = NoCall
    /\ calls = 0
    /\ listenerOp = "none"
    /\ listenerPc = "idle"
    /\ takePc = "idle"
    /\ driverQueue = <<>>
    /\ sessions = 0
    /\ crashed = FALSE
    /\ accepted = {}
    /\ lastDelivered = -1
    /\ deliveredInOrder = TRUE
    /\ lastIngress = NoIngress
    /\ mListenToUVCFds = TRUE
    /\ pendingEvents = <<>>
    /\ mainPc = "idle"
    /\ jniLog = <<>>

NoEvent == [type |-> "NONE"]

\* No UVCDevice is open.
InitNoDevice ==
    /\ formats = <<>>
    /\ mProbe = ZeroStreamingControl
    /\ mCommit = ZeroStreamingControl
    /\ mCurrentControlState = UVC_VS_CONTROL_UNDEFINED
    /\ mV4l2Format = ZeroV4l2Format
    /\ mFps = 0
    /\ ctlFault = "none"
    /\ lastEvent = NoEvent

(***************************************************************************)
(* SpecPool: the BufferManager driven by an arbitrary well-behaved client: *)
(* a producer that acquires, stamps, and then queues or cancels buffers,   *)
(* and one consumer calling getFilledBufferAndSwap.                        *)
(***************************************************************************)
InitPool ==
    /\ mProducerBufferItems = ConstructedProducerItems
    /\ mConsumerBufferItem = ConstructedConsumerItem
    /\ mTimestamp = [b \in BufferIds |-> 0]
    /\ consumerPc = "idle"
    /\ cvNotified = FALSE
    /\ lastTake = NoTake
    /\ InitNoDevice
    /\ mServiceRunning = FALSE
    /\ mUVCDevice = FALSE
    /\ InitNoSession

\* Producer: getFreeBufferIfAvailable, then Buffer::setTimestamp on the buffer obtained
\* (SdkFrameProvider::encodeImage does exactly this pair).
PoolAcquire(ts) ==
    LET r == getFreeBufferIfAvailable(mProducerBufferItems) IN
    /\ mProducerBufferItems' = r.items
    /\ mTimestamp' = IF r.buffer < 0 THEN mTimestamp
                     ELSE [mTimestamp EXCEPT ![r.buffer] = ts]
    /\ UNCHANGED <<mConsumerBufferItem, consumerPc, cvNotified, lastTake>>
    /\ UNCHANGED nonPoolVars

\* Producer: queueFilledBuffer on a buffer it holds; notify_one wakes a waiting consumer.
PoolQueueFilled(b) ==
    /\ b \in InUseBuffers(mProducerBufferItems)
    /\ mProducerBufferItems' = queueFilledBuffer(mProducerBufferItems, b).items
    /\ cvNotified' = (cvNotified \/ consumerPc = "waiting")
    /\ UNCHANGED <<mConsumerBufferItem, mTimestamp, consumerPc, lastTake>>
    /\ UNCHANGED nonPoolVars

\* Producer: cancelBuffer on a buffer it holds.
PoolCancel(b) ==
    /\ b \in InUseBuffers(mProducerBufferItems)
    /\ mProducerBufferItems' = cancelBuffer(mProducerBufferItems, b).items
    /\ UNCHANGED <<mConsumerBufferItem, mTimestamp, consumerPc, cvNotified, lastTake>>
    /\ UNCHANGED nonPoolVars

\* Consumer: enters getFilledBufferAndSwap and takes mBufferLock.
ConsumerEnter ==
    /\ consumerPc = "idle"
    /\ consumerPc' = "locked"
    /\ UNCHANGED <<poolVars, cvNotified, lastTake>>
    /\ UNCHANGED nonPoolVars

\* Consumer: one evaluation of the while condition under the lock, then either the
\* swap and return, or mProducerBufferFilled.wait (which releases the lock).
ConsumerCheck ==
    /\ consumerPc = "locked"
    /\ LET r == filledProducerBufferAvailableLocked(mProducerBufferItems, mTimestamp, 0) IN
       IF r.found
       THEN LET s == SwapWithConsumer(r.items, mConsumerBufferItem, r.index) IN
            /\ mProducerBufferItems' = s.items
            /\ mConsumerBufferItem' = s.cons
            /\ consumerPc' = "idle"
            /\ lastTake' = [valid |-> TRUE,
                            filledTs |-> FilledTimestamps(mProducerBufferItems, mTimestamp),
                            returnedTs |-> mTimestamp[s.cons.buffer],
                            filledAfter |-> Cardinality(FilledSlots(s.items))]
       ELSE /\ mProducerBufferItems' = r.items
            /\ consumerPc' = "waiting"
            /\ UNCHANGED <<mConsumerBufferItem, lastTake>>
    /\ cvNotified' = FALSE
    /\ UNCHANGED mTimestamp
    /\ UNCHANGED nonPoolVars

\* Consumer: woken by notify_one, re-acquires the lock.
ConsumerNotified ==
    /\ consumerPc = "waiting"
    /\ cvNotified
    /\ consumerPc' = "locked"
    /\ cvNotified' = FALSE
    /\ UNCHANGED <<poolVars, lastTake>>
    /\ UNCHANGED nonPoolVars

\* Consumer: condition_variable::wait may also return spuriously.
ConsumerSpuriousWake ==
    /\ consumerPc = "waiting"
    /\ ~cvNotified
    /\ consumerPc' = "locked"
    /\ UNCHANGED <<poolVars, cvNotified, lastTake>>
    /\ UNCHANGED nonPoolVars

NextPool ==
    \/ \E ts \in Timestamps : PoolAcquire(ts)
    \/ \E b \in BufferIds : PoolQueueFilled(b)
    \/ \E b \in BufferIds : PoolCancel(b)
    \/ ConsumerEnter
    \/ ConsumerCheck
    \/ ConsumerNotified
    \/ ConsumerSpuriousWake

SpecPool == InitPool /\ [][NextPool]_vars

\* The consumer thread is scheduled fairly and a notification is delivered; nothing
\* obliges the producer to acquire, queue or cancel anything more.
FairSpecPool ==
    /\ InitPool
    /\ [][NextPool]_vars
    /\ WF_vars(ConsumerCheck)
    /\ WF_vars(ConsumerNotified)

(***************************************************************************)
(* Properties of the buffer pool                                           *)
(***************************************************************************)

\* C1: every getFilledBufferAndSwap that returns hands back a buffer whose timestamp is
\* >= the timestamp of every producer item that was FILLED when it selected, and when it
\* returns no producer item is FILLED (the other FILLED items were demoted to FREE, the
\* winner's slot holds the old consumer buffer, FREE).
C1_NewestWins ==
    lastTake.valid =>
        /\ \A t \in lastTake.filledTs : lastTake.returnedTs >= t
        /\ lastTake.returnedTs \in lastTake.filledTs
        /\ lastTake.filledAfter = 0

\* a take that chose among several FILLED items with different timestamps
C1_Witness ==
    /\ lastTake.valid
    /\ Cardinality(lastTake.filledTs) >= 2
    /\ lastTake.returnedTs = MaxTs
    /\ consumerPc = "idle"

\* C5: once a producer item is FILLED (whatever its timestamp, 0 included) and the
\* consumer is inside getFilledBufferAndSwap, the call eventually returns.
C5_FilledLeadsToReturn ==
    (consumerPc # "idle" /\ FilledSlots(mProducerBufferItems) # {}) ~> (consumerPc = "idle")

(***************************************************************************)
(* SpecCtl: the control plane of one opened UVCDevice. The listener thread *)
(* dequeues UVC events one at a time (UVCProvider::processUVCEvent); SETUP *)
(* and DATA events drive the PROBE/COMMIT negotiation.                     *)
(***************************************************************************)
\* sizeof(struct uvc_streaming_control): the widths in bytes of its packed fields
StreamingControlFieldBytes == <<2, 1, 1, 4, 2, 2, 2, 2, 2, 4, 4, 4, 1, 1, 1, 1>>
RECURSIVE SumBytes(_, _)
SumBytes(widths, i) == IF i > Len(widths) THEN 0 ELSE widths[i] + SumBytes(widths, i + 1)
SizeofStreamingControl == SumBytes(StreamingControlFieldBytes, 1)

\* struct uvc_request_data {} : length 0, data all zero. The data bytes are read through
\* the uvc_streaming_control overlay; data[0] is the low byte of bmHint.
ZeroResponse == [length |-> 0, data |-> ZeroStreamingControl]
SetData0(response, byte) ==
    [response EXCEPT !.data.bmHint = (@ \div 256) * 256 + byte]

UvcRequests ==
    {"SET_CUR", "GET_CUR", "GET_MIN", "GET_MAX", "GET_RES", "GET_LEN", "GET_INFO",
     "GET_DEF", "OTHER"}
ControlSelectors ==
    {UVC_VS_CONTROL_UNDEFINED, UVC_VS_PROBE_CONTROL, UVC_VS_COMMIT_CONTROL}

\* struct usb_ctrlrequest, decoded: type is bRequestType & USB_TYPE_MASK, recip is
\* bRequestType & USB_RECIP_MASK, interface is wIndex & 0xff, controlSelect is wValue >> 8.
CtrlRequest(type, recip, interface, bRequest, controlSelect, wLength) ==
    [type |-> type, recip |-> recip, interface |-> interface, bRequest |-> bRequest,
     controlSelect |-> controlSelect, wLength |-> wLength]

SetupRequests ==
    { CtrlRequest("CLASS", "INTERFACE", STREAMING_INTERFACE_IDX, b, cs, SizeofStreamingControl) :
        b \in UvcRequests, cs \in ControlSelectors }
    \cup { CtrlRequest("CLASS", "INTERFACE", CONTROL_INTERFACE_IDX, "GET_CUR",
                       UVC_VS_CONTROL_UNDEFINED, len) : len \in 1..2 }
    \cup { CtrlRequest("CLASS", "INTERFACE", STREAMING_INTERFACE_IDX + 1, "GET_CUR",
                       UVC_VS_PROBE_CONTROL, 1),
           CtrlRequest("CLASS", "DEVICE", STREAMING_INTERFACE_IDX, "GET_CUR",
                       UVC_VS_PROBE_CONTROL, 1),
           CtrlRequest("STANDARD", "INTERFACE", STREAMING_INTERFACE_IDX, "GET_CUR",
                       UVC_VS_PROBE_CONTROL, 1),
           CtrlRequest("VENDOR", "INTERFACE", STREAMING_INTERFACE_IDX, "GET_CUR",
                       UVC_VS_PROBE_CONTROL, 1),
           CtrlRequest("CLASS", "INTERFACE", STREAMING_INTERFACE_IDX, "SET_CUR",
                       UVC_VS_STILL_PROBE_CONTROL, SizeofStreamingControl) }

RequestIntervals ==
    {U32(0), UINT32_MAX}
    \cup {U32(k * IntervalStep) : k \in 1..(MaxIntervals + 1)}
    \cup {U32(k * IntervalStep + 1) : k \in 1..(MaxIntervals - 1)}
RequestIndices == 0..MaxFormats \cup 0..MaxFrames \cup {UINT8_MAX}
DataTriplets ==
    { FormatTriplet(f, r, i) : f \in RequestIndices, r \in RequestIndices,
                               i \in RequestIntervals }

\* UVCDevice::processSetupControlEvent
processSetupControlEvent(control, resp) ==
    [SetData0(resp, 3) EXCEPT !.length = control.wLength]

\* UVCDevice::processSetupStreamingEvent: the response it leaves and the selector.
processSetupStreamingEvent(request, response, selector, probe, commit, fmts) ==
    LET requestType == request.bRequest
        controlSelect == request.controlSelect
        sized == [response EXCEPT !.length = SizeofStreamingControl]
    IN
    IF controlSelect # UVC_VS_PROBE_CONTROL /\ controlSelect # UVC_VS_COMMIT_CONTROL
    THEN [response |-> response, selector |-> selector]
    ELSE CASE requestType = "SET_CUR" ->
                [response |-> [sized EXCEPT !.length = 48], selector |-> controlSelect]
           [] requestType = "GET_CUR" ->
                [response |-> [sized EXCEPT !.data =
                                  IF controlSelect = UVC_VS_PROBE_CONTROL THEN probe
                                  ELSE commit],
                 selector |-> selector]
           [] requestType = "GET_MAX" ->
                [response |-> [sized EXCEPT !.data =
                                  setStreamingControl(@, maxFormatTriplet, fmts)],
                 selector |-> selector]
           [] requestType \in {"GET_MIN", "GET_DEF"} ->
                [response |-> [sized EXCEPT !.data =
                                  setStreamingControl(@, defaultFormatTriplet, fmts)],
                 selector |-> selector]
           [] requestType = "GET_RES" ->
                [response |-> [sized EXCEPT !.data = ZeroStreamingControl],
                 selector |-> selector]
           [] requestType = "GET_LEN" ->
                [response |-> [SetData0(SetData0(sized, 0), 48) EXCEPT !.length = 2],
                 selector |-> selector]
           [] requestType = "GET_INFO" ->
                [response |-> [SetData0(sized, 3) EXCEPT !.length = 1],
                 selector |-> selector]
           [] OTHER -> [response |-> sized, selector |-> selector]

\* A class handler whose SET_CUR latches whatever selector the request names.
processSetupClassEvent_LatchesAnySelector(request, response, selector, probe, commit, fmts) ==
    IF request.recip # "INTERFACE"
    THEN [response |-> response, selector |-> selector]
    ELSE IF request.interface = CONTROL_INTERFACE_IDX
    THEN [response |-> processSetupControlEvent(request, response), selector |-> selector]
    ELSE IF request.interface = STREAMING_INTERFACE_IDX
    THEN [processSetupStreamingEvent(request, response, selector, probe, commit, fmts)
             EXCEPT !.selector = IF request.bRequest = "SET_CUR"
                                  THEN request.controlSelect
                                  ELSE @]
    ELSE [response |-> response, selector |-> selector]

\* UVCDevice::processSetupClassEvent
processSetupClassEvent(request, response, selector, probe, commit, fmts) ==
    IF request.recip # "INTERFACE"
    THEN [response |-> response, selector |-> selector]
    ELSE IF request.interface = CONTROL_INTERFACE_IDX
    THEN [response |-> processSetupControlEvent(request, response), selector |-> selector]
    ELSE IF request.interface = STREAMING_INTERFACE_IDX
    THEN processSetupStreamingEvent(request, response, selector, probe, commit, fmts)
    ELSE [response |-> response, selector |-> selector]

\* UVCDevice::processSetupEvent
processSetupEvent(request, response, selector, probe, commit, fmts) ==
    IF request.type = "CLASS"
    THEN processSetupClassEvent(request, response, selector, probe, commit, fmts)
    ELSE [response |-> response, selector |-> selector]

\* No BufferManager exists outside a streaming session.
InitNoPool ==
    /\ mProducerBufferItems = <<>>
    /\ mConsumerBufferItem = BufferItem(-1, FREE)
    /\ mTimestamp = <<>>
    /\ consumerPc = "idle"
    /\ cvNotified = FALSE
    /\ lastTake = NoTake

\* UVCDevice::UVCDevice succeeded (mInited): the catalogue is enumerated, mCommit holds
\* the default negotiation, mProbe and mV4l2Format are zero.
InitCtl ==
    /\ formats \in Catalogues
    /\ mProbe = ZeroStreamingControl
    /\ mCommit = setStreamingControl(ZeroStreamingControl, defaultFormatTriplet, formats)
    /\ mCurrentControlState = UVC_VS_CONTROL_UNDEFINED
    /\ mV4l2Format = ZeroV4l2Format
    /\ mFps = 0
    /\ ctlFault = "none"
    /\ lastEvent = NoEvent
    /\ InitNoPool
    /\ mServiceRunning = TRUE
    /\ mUVCDevice = TRUE
    /\ InitNoSession

\* processUVCEvent, UVC_EVENT_SETUP: build the response and hand it to the driver with
\* UVCIOC_SEND_RESPONSE; sent is the outcome of that ioctl (a failing one is logged and
\* changes nothing, the selector has been latched before it is issued).
CtlSetupEvent(request, sent) ==
    /\ ctlFault = "none"
    /\ LET r == processSetupEvent(request, ZeroResponse, mCurrentControlState, mProbe,
                                  mCommit, formats) IN
       /\ mCurrentControlState' = r.selector
       /\ lastEvent' = [type |-> "SETUP", request |-> request, response |-> r.response,
                        sent |-> sent]
    /\ UNCHANGED <<formats, mProbe, mCommit, mV4l2Format, mFps, ctlFault>>
    /\ UNCHANGED nonCtlVars

\* processUVCEvent, UVC_EVENT_DATA: processDataEvent, with commitControls when the
\* selector is COMMIT. The VIDIOC_S_FMT ioctl is issued with mV4l2Format; its failure is
\* only logged, and the model takes the driver to leave the requested fields as they
\* are. No response is sent.
CtlDataEvent(triplet) ==
    /\ ctlFault = "none"
    /\ CASE mCurrentControlState = UVC_VS_PROBE_CONTROL ->
              /\ mProbe' = setStreamingControl(mProbe, triplet, formats)
              /\ lastEvent' = [type |-> "DATA", triplet |-> triplet,
                               selector |-> mCurrentControlState, sFmt |-> "none"]
              /\ UNCHANGED <<mCommit, mV4l2Format, mFps, ctlFault>>
         [] mCurrentControlState = UVC_VS_COMMIT_CONTROL ->
              LET commit == setStreamingControl(mCommit, triplet, formats)
                  c == commitControls(commit, formats)
              IN
              /\ mCommit' = commit
              /\ ctlFault' = c.fault
              /\ IF c.fault = "none"
                 THEN /\ mFps' = c.mFps
                      /\ mV4l2Format' = c.mV4l2Format
                      /\ lastEvent' = [type |-> "DATA", triplet |-> triplet,
                                       selector |-> mCurrentControlState,
                                       sFmt |-> "called"]
                 ELSE /\ UNCHANGED <<mFps, mV4l2Format>>
                      /\ lastEvent' = [type |-> "DATA", triplet |-> triplet,
                                       selector |-> mCurrentControlState, sFmt |-> "none"]
              /\ UNCHANGED mProbe
         [] OTHER ->
              /\ lastEvent' = [type |-> "DATA", triplet |-> triplet,
                               selector |-> mCurrentControlState, sFmt |-> "none"]
              /\ UNCHANGED <<mProbe, mCommit, mV4l2Format, mFps, ctlFault>>
    /\ UNCHANGED <<formats, mCurrentControlState>>
    /\ UNCHANGED nonCtlVars

\* processUVCEvent when VIDIOC_DQEVENT fails, and for UVC_EVENT_CONNECT: return at once.
CtlNoEvent(kind) ==
    /\ ctlFault = "none"
    /\ lastEvent' = [type |-> kind]
    /\ UNCHANGED <<formats, mProbe, mCommit, mCurrentControlState, mV4l2Format, mFps,
                   ctlFault>>
    /\ UNCHANGED nonCtlVars

\* processUVCEvent, an event type it does not know: the zero response is sent.
CtlUnsupportedEvent ==
    /\ ctlFault = "none"
    /\ lastEvent' = [type |-> "UNSUPPORTED", response |-> ZeroResponse]
    /\ UNCHANGED <<formats, mProbe, mCommit, mCurrentControlState, mV4l2Format, mFps,
                   ctlFault>>
    /\ UNCHANGED nonCtlVars

\* processUVCEvent, UVC_EVENT_STREAMOFF while no session exists: processStreamOffEvent
\* issues VIDIOC_STREAMOFF and, unless it fails, resets the (empty) mFrameProvider and
\* mBufferManager and clears mCommit, mProbe, mV4l2Format and mFps. No response is sent.
CtlStreamOffEvent(ok) ==
    /\ ctlFault = "none"
    /\ lastEvent' = [type |-> "STREAMOFF", ok |-> ok]
    /\ IF ok
       THEN /\ mCommit' = ZeroStreamingControl
            /\ mProbe' = ZeroStreamingControl
            /\ mV4l2Format' = ZeroV4l2Format
            /\ mFps' = 0
       ELSE UNCHANGED <<mCommit, mProbe, mV4l2Format, mFps>>
    /\ UNCHANGED <<formats, mCurrentControlState, ctlFault>>
    /\ UNCHANGED nonCtlVars

NextCtl ==
    \/ \E request \in SetupRequests, sent \in BOOLEAN : CtlSetupEvent(request, sent)
    \/ \E triplet \in DataTriplets : CtlDataEvent(triplet)
    \/ \E kind \in {"DQEVENT_FAILED", "CONNECT"} : CtlNoEvent(kind)
    \/ CtlUnsupportedEvent
    \/ \E ok \in BOOLEAN : CtlStreamOffEvent(ok)

SpecCtl == InitCtl /\ [][NextCtl]_vars

(***************************************************************************)
(* Properties of the negotiation                                           *)
(***************************************************************************)
\* The last event was a DATA event that ran setStreamingControl on mProbe or mCommit.
LastDataNegotiated ==
    /\ lastEvent.type = "DATA"
    /\ lastEvent.selector \in {UVC_VS_PROBE_CONTROL, UVC_VS_COMMIT_CONTROL}
\* The structure that DATA event negotiated into.
LastDataTarget == IF lastEvent.selector = UVC_VS_PROBE_CONTROL THEN mProbe ELSE mCommit
\* The triplet a DATA payload carrying the structure would be parsed into.
TripletOf(ctrl) == FormatTriplet(ctrl.bFormatIndex, ctrl.bFrameIndex, ctrl.dwFrameInterval)
\* The catalogue entries a triplet with non-zero indices designates.
Smaller(a, b) == IF a < b THEN a ELSE b
DesignatedFormat(t) == formats[Smaller(t.formatIndex, Len(formats))]
DesignatedFrame(t) ==
    DesignatedFormat(t).frames[Smaller(t.frameSizeIndex, Len(DesignatedFormat(t).frames))]
IntervalSet(frame) == {frame.intervals[i] : i \in 1..Len(frame.intervals)}

C10_FirstIntervalAtLeastRequest ==
    (LastDataNegotiated /\ lastEvent.triplet.formatIndex >= 1
                        /\ lastEvent.triplet.frameSizeIndex >= 1) =>
        LET r == lastEvent.triplet.frameInterval
            advertised == IntervalSet(DesignatedFrame(lastEvent.triplet))
            chosen == LastDataTarget.dwFrameInterval
        IN
        /\ chosen \in advertised
        /\ IF \E i \in advertised : U32LessEq(r, i)
           THEN /\ U32LessEq(r, chosen)
                /\ \A i \in advertised : U32LessEq(r, i) => U32LessEq(chosen, i)
           ELSE \A i \in advertised : U32LessEq(i, chosen)
        /\ r \in advertised => chosen = r

\* A request strictly between two advertised intervals, answered with the upper one,
\* which is not the frame's largest.
C10_Witness ==
    /\ LastDataNegotiated
    /\ lastEvent.triplet.formatIndex >= 1
    /\ lastEvent.triplet.frameSizeIndex >= 1
    /\ LET r == lastEvent.triplet.frameInterval
           advertised == IntervalSet(DesignatedFrame(lastEvent.triplet))
       IN
       /\ r \notin advertised
       /\ \E i \in advertised : U32Less(i, r)
       /\ \E i \in advertised : U32Less(LastDataTarget.dwFrameInterval, i)
       /\ U32Less(r, LastDataTarget.dwFrameInterval)

(***************************************************************************)
(* Spec: one run of the service after setupServicesAndStartListening. The  *)
(* host thread calls encodeImage, the UVC listener thread handles STREAMON,*)
(* stream (EPOLLOUT), STREAMOFF and DISCONNECT / node-removal events, and  *)
(* each session has its encoder worker thread. SETUP and DATA events touch *)
(* only the control plane and are the subject of SpecCtl; here the run     *)
(* starts from what the host committed, or did not commit, before          *)
(* streaming. The gadget raises STREAMON only while no session exists.     *)
(***************************************************************************)
SessionCatalogue == [f \in 1..MaxFormats |-> ConfigFormat(f, 0)]

InitService ==
    /\ formats = SessionCatalogue
    /\ mProbe = ZeroStreamingControl
    /\ ctlFault = "none"
    /\ \E f \in 0..Len(SessionCatalogue) :
         LET constructed == setStreamingControl(ZeroStreamingControl, defaultFormatTriplet,
                                                SessionCatalogue)
             triplet == FormatTriplet(f, 1, U32(0))
             commit == setStreamingControl(constructed, triplet, SessionCatalogue)
             c == commitControls(commit, SessionCatalogue)
         IN
         IF f = 0
         THEN /\ mCommit = constructed
              /\ mV4l2Format = ZeroV4l2Format
              /\ mFps = 0
              /\ mCurrentControlState = UVC_VS_CONTROL_UNDEFINED
              /\ lastEvent = NoEvent
         ELSE /\ mCommit = commit
              /\ mV4l2Format = c.mV4l2Format
              /\ mFps = c.mFps
              /\ mCurrentControlState = UVC_VS_COMMIT_CONTROL
              /\ lastEvent = [type |-> "DATA", triplet |-> triplet,
                              selector |-> UVC_VS_COMMIT_CONTROL, sFmt |-> "called"]
    /\ InitNoPool
    /\ mServiceRunning = TRUE
    /\ mUVCDevice = TRUE
    /\ InitNoSession

\* AHardwareBuffer_acquire + AHardwareBuffer_lockPlanes, and the map entry for it
acquireHardwareBuffer(buffers, image) == [buffers EXCEPT ![image] = "held"]

releaseHardwareBuffer_Noop(buffers, image) == buffers

\* SdkFrameProvider::releaseHardwareBuffer: unlock and release if the id is in the map
releaseHardwareBuffer(buffers, image) ==
    IF buffers[image] = "held" THEN [buffers EXCEPT ![image] = "released"] ELSE buffers

\* No producer slot is Free.
NoFree(items) == \A i \in 1..Len(items) : items[i].state # FREE

\* What an encodeImage call leaves behind when it returns: how it ended, whether a
\* request was enqueued, whether the pool is as the call found it, and whether the call
\* found the pool without a Free producer slot.
IngressOutcome(outcome, enqueued, poolUnchanged, noFree) ==
    [outcome |-> outcome, image |-> ingressCall.image, enqueued |-> enqueued,
     poolUnchanged |-> poolUnchanged, noFree |-> noFree]

\* DeviceAsWebcamServiceManager::encodeImage: the host thread takes mSerializationLock.
EncodeImageEnter(ts) ==
    /\ ~crashed
    /\ ingressPc = "idle"
    /\ calls < MaxImages
    /\ mSerializationLock = "free"
    /\ mSerializationLock' = "ingress"
    /\ calls' = calls + 1
    /\ ingressCall' = [image |-> calls + 1, timestamp |-> ts, buffer |-> -1,
                       noFree |-> FALSE]
    /\ ingressPc' = "encodeImage"
    /\ UNCHANGED <<lifeVars, poolVars, consumerVars, ctlVars, mServiceRunning,
                   mJniThread, devVars,
                   encVars, hardwareBuffers, listenerVars, crashed, histVars>>

\* ... checks mServiceRunning, then UVCProvider::encodeImage reads mUVCDevice.
EncodeImageReadDevice ==
    /\ ~crashed
    /\ ingressPc = "encodeImage"
    /\ IF mServiceRunning /\ mUVCDevice
       THEN /\ ingressPc' = "device"
            /\ UNCHANGED <<mSerializationLock, lastIngress>>
       ELSE /\ ingressPc' = "idle"
            /\ mSerializationLock' = "free"
            /\ lastIngress' = IngressOutcome("NO_DEVICE", FALSE, TRUE, FALSE)
    /\ UNCHANGED <<lifeVars, poolVars, consumerVars, ctlVars, mServiceRunning,
                   mJniThread, devVars,
                   encVars, hardwareBuffers, ingressCall, calls, listenerVars, crashed,
                   accepted, lastDelivered, deliveredInOrder>>

\* UVCDevice::encodeImage reads mFrameProvider. If the listener has reset mUVCDevice since
\* the host thread read it, the UVCDevice is being or has been destroyed and the read is
\* a use after free: the process crashes, or the read sees what the member last held.
EncodeImageReadProvider(ub) ==
    /\ ~crashed
    /\ ingressPc = "device"
    /\ IF ~mUVCDevice /\ ub = "crash"
       THEN /\ crashed' = TRUE
            /\ UNCHANGED <<ingressPc, mSerializationLock, lastIngress>>
       ELSE IF mFrameProvider
       THEN /\ ingressPc' = "provider"
            /\ UNCHANGED <<crashed, mSerializationLock, lastIngress>>
       ELSE /\ ingressPc' = "idle"
            /\ mSerializationLock' = "free"
            /\ lastIngress' = IngressOutcome("NO_PROVIDER", FALSE, TRUE, FALSE)
            /\ UNCHANGED crashed
    /\ UNCHANGED <<lifeVars, poolVars, consumerVars, ctlVars, mServiceRunning,
                   mJniThread, devVars,
                   encVars, hardwareBuffers, ingressCall, calls, listenerVars,
                   accepted, lastDelivered, deliveredInOrder>>

\* SdkFrameProvider::encodeImage up to queueRequest: getHardwareBufferDescFromHardwareBuffer
\* (lockOk is the outcome of AHardwareBuffer_lockPlanes), getFreeBufferIfAvailable, and
\* either releaseHardwareBuffer and the error return, or setTimestamp.
EncodeImageAcquire(lockOk) ==
    /\ ~crashed
    /\ ingressPc = "provider"
    /\ IF ~lockOk
       THEN /\ ingressPc' = "idle"
            /\ mSerializationLock' = "free"
            /\ lastIngress' = IngressOutcome("LOCK_FAILED", FALSE, TRUE, FALSE)
            /\ UNCHANGED <<poolVars, hardwareBuffers, ingressCall>>
       ELSE LET held == acquireHardwareBuffer(hardwareBuffers, ingressCall.image)
                r == getFreeBufferIfAvailable(mProducerBufferItems)
            IN
            IF r.buffer < 0
            THEN /\ hardwareBuffers' = releaseHardwareBuffer(held, ingressCall.image)
                 /\ mProducerBufferItems' = r.items
                 /\ ingressPc' = "idle"
                 /\ mSerializationLock' = "free"
                 /\ lastIngress' = IngressOutcome("NO_FREE_SLOT", FALSE,
                                                  r.items = mProducerBufferItems,
                                                  NoFree(mProducerBufferItems))
                 /\ UNCHANGED <<mConsumerBufferItem, mTimestamp, ingressCall>>
            ELSE /\ hardwareBuffers' = held
                 /\ mProducerBufferItems' = r.items
                 /\ mTimestamp' = [mTimestamp EXCEPT ![r.buffer] = ingressCall.timestamp]
                 /\ ingressCall' = [ingressCall EXCEPT !.buffer = r.buffer,
                                                       !.noFree = NoFree(mProducerBufferItems)]
                 /\ ingressPc' = "queueRequest"
                 /\ UNCHANGED <<mConsumerBufferItem, mSerializationLock, lastIngress>>
    /\ UNCHANGED <<lifeVars, consumerVars, ctlVars, mServiceRunning, mJniThread, devVars,
                   encVars,
                   calls, listenerVars, crashed, accepted, lastDelivered,
                   deliveredInOrder>>

\* Encoder::queueRequest under mRequestLock, then the return through both callers.
EncodeImageQueueRequest ==
    /\ ~crashed
    /\ ingressPc = "queueRequest"
    /\ mRequestLock = "free"
    /\ mRequestQueue' = Append(mRequestQueue,
                               [image |-> ingressCall.image, buffer |-> ingressCall.buffer,
                                success |-> FALSE])
    /\ accepted' = accepted \cup {ingressCall.image}
    /\ ingressPc' = "idle"
    /\ mSerializationLock' = "free"
    /\ lastIngress' = IngressOutcome("OK", TRUE, FALSE, ingressCall.noFree)
    /\ UNCHANGED <<lifeVars, poolVars, consumerVars, ctlVars, mServiceRunning,
                   mJniThread, devVars,
                   mRequestLock, mContinueEncoding, mConfig, encoderPc, workerRequest,
                   hardwareBuffers, ingressCall, calls, listenerVars, crashed,
                   lastDelivered, deliveredInOrder>>

(***************************************************************************)
(* The encoder worker thread (Encoder::encodeThreadLoop)                   *)
(***************************************************************************)
\* Encoder::encode has a case for the fourcc
Encodable(fcc) == fcc \in {V4L2_PIX_FMT_YUYV, V4L2_PIX_FMT_MJPEG}

\* The loop test. With mContinueEncoding set: take mRequestLock and pop the front
\* request, or start waiting on an empty queue. With it cleared: leave the loop and
\* take mRequestLock for the drain.
EncoderLoop ==
    /\ ~crashed
    /\ encoderPc = "loop"
    /\ mRequestLock = "free"
    /\ IF ~mContinueEncoding
       THEN /\ mRequestLock' = "encoder"
            /\ encoderPc' = "drain"
            /\ UNCHANGED <<mRequestQueue, workerRequest>>
       ELSE IF mRequestQueue = <<>>
       THEN /\ encoderPc' = "waiting"
            /\ UNCHANGED <<mRequestLock, mRequestQueue, workerRequest>>
       ELSE /\ workerRequest' = Head(mRequestQueue)
            /\ mRequestQueue' = Tail(mRequestQueue)
            /\ encoderPc' = "encode"
            /\ UNCHANGED mRequestLock
    /\ UNCHANGED <<lifeVars, poolVars, consumerVars, ctlVars, svcVars, devVars,
                   mContinueEncoding,
                   mConfig, hardwareBuffers, ingressVars, listenerVars, crashed, histVars>>

\* wait_for returned (notified or timed out) with mRequestLock held again: return if
\* mContinueEncoding is cleared, else pop a request or wait again.
EncoderWake ==
    /\ ~crashed
    /\ encoderPc = "waiting"
    /\ mRequestLock = "free"
    /\ IF ~mContinueEncoding
       THEN /\ encoderPc' = "exited"
            /\ UNCHANGED <<mRequestQueue, workerRequest>>
       ELSE IF mRequestQueue = <<>>
       THEN UNCHANGED <<encoderPc, mRequestQueue, workerRequest>>
       ELSE /\ workerRequest' = Head(mRequestQueue)
            /\ mRequestQueue' = Tail(mRequestQueue)
            /\ encoderPc' = "encode"
    /\ UNCHANGED <<lifeVars, poolVars, consumerVars, ctlVars, svcVars, devVars,
                   mRequestLock,
                   mContinueEncoding, mConfig, hardwareBuffers, ingressVars, listenerVars,
                   crashed, histVars>>

\* Encoder::encode(request). For YUYV and MJPEG the encode succeeds or fails and calls
\* onEncoded, whose first act is releaseHardwareBuffer; for any other fourcc it only
\* logs and the loop goes on.
EncoderEncode(success) ==
    /\ ~crashed
    /\ encoderPc = "encode"
    /\ IF Encodable(mConfig.fcc)
       THEN /\ hardwareBuffers' = releaseHardwareBuffer(hardwareBuffers, workerRequest.image)
            /\ workerRequest' = [workerRequest EXCEPT !.success = success]
            /\ encoderPc' = "returnImage"
       ELSE /\ encoderPc' = "loop"
            /\ workerRequest' = NoRequest
            /\ UNCHANGED hardwareBuffers
    /\ UNCHANGED <<lifeVars, poolVars, consumerVars, ctlVars, svcVars, devVars,
                   mRequestLock,
                   mRequestQueue, mContinueEncoding, mConfig, ingressVars, listenerVars,
                   crashed, histVars>>

\* onEncoded calls DeviceAsWebcamServiceManager::returnImage, which takes
\* mSerializationLock and, the service running, calls returnImage of the Java service.
EncoderReturnImageEnter ==
    /\ ~crashed
    /\ encoderPc = "returnImage"
    /\ mSerializationLock = "free"
    /\ mSerializationLock' = "encoder"
    /\ encoderPc' = "hostReturnImage"
    /\ UNCHANGED <<lifeVars, poolVars, consumerVars, ctlVars, mServiceRunning,
                   mJniThread, devVars,
                   mRequestLock, mRequestQueue, mContinueEncoding, mConfig, workerRequest,
                   hardwareBuffers, ingressVars, listenerVars, crashed, histVars>>

\* returnImage returns and releases mSerializationLock; onEncoded ends with cancelBuffer
\* or queueFilledBuffer. Back to the loop, or to the drain when called from it.
EncoderReturnImageLeave ==
    /\ ~crashed
    /\ encoderPc = "hostReturnImage"
    /\ mSerializationLock' = "free"
    /\ mProducerBufferItems' =
          IF workerRequest.success
          THEN queueFilledBuffer(mProducerBufferItems, workerRequest.buffer).items
          ELSE cancelBuffer(mProducerBufferItems, workerRequest.buffer).items
    /\ encoderPc' = IF mRequestLock = "encoder" THEN "drain" ELSE "loop"
    /\ workerRequest' = NoRequest
    /\ UNCHANGED <<lifeVars, mConsumerBufferItem, mTimestamp, consumerVars, ctlVars,
                   mServiceRunning,
                   mJniThread, devVars, mRequestLock, mRequestQueue, mContinueEncoding,
                   mConfig, hardwareBuffers, ingressVars, listenerVars, crashed, histVars>>

\* The drain after the loop, under mRequestLock: pop a pending request and call
\* onEncoded(..., false) for it, or release the lock and end the thread.
EncoderDrain ==
    /\ ~crashed
    /\ encoderPc = "drain"
    /\ IF mRequestQueue = <<>>
       THEN /\ mRequestLock' = "free"
            /\ encoderPc' = "exited"
            /\ UNCHANGED <<mRequestQueue, workerRequest, hardwareBuffers>>
       ELSE /\ workerRequest' = Head(mRequestQueue)
            /\ mRequestQueue' = Tail(mRequestQueue)
            /\ hardwareBuffers' = releaseHardwareBuffer(hardwareBuffers,
                                                        Head(mRequestQueue).image)
            /\ encoderPc' = "returnImage"
            /\ UNCHANGED mRequestLock
    /\ UNCHANGED <<lifeVars, poolVars, consumerVars, ctlVars, svcVars, devVars,
                   mContinueEncoding,
                   mConfig, ingressVars, listenerVars, crashed, histVars>>

(***************************************************************************)
(* The UVC listener thread (UVCProvider::ListenToUVCFds)                   *)
(***************************************************************************)
HostCallOf == [call_setStreamConfig |-> "in_setStreamConfig",
               call_startStreaming |-> "in_startStreaming",
               call_stopStreaming |-> "in_stopStreaming"]

\* A listener that goes from startStreaming straight to the consumer side of the pool.
AfterHostCall_TakeBeforeStreamOn == [in_setStreamConfig |-> "call_startStreaming",
                                     in_startStreaming |-> "take",
                                     in_stopStreaming |-> "join"]

AfterHostCall == [in_setStreamConfig |-> "call_startStreaming",
                  in_startStreaming |-> "streamOnIoctl",
                  in_stopStreaming |-> "join"]

\* What the Java service is told by the call the listener is about to make:
\* SdkFrameProvider::setStreamConfig passes mConfig.fcc == V4L2_PIX_FMT_MJPEG and the
\* width, height and fps of mConfig; startStreaming and stopStreaming pass nothing.
JniCall(call, args) == [call |-> call, args |-> args]

Notification(pc, config) ==
    IF pc = "call_setStreamConfig"
    THEN JniCall("setStreamConfig", <<config.fcc = V4L2_PIX_FMT_MJPEG, config.width,
                                      config.height, config.fps>>)
    ELSE IF pc = "call_startStreaming"
    THEN JniCall("startStreaming", <<>>)
    ELSE JniCall("stopStreaming", <<>>)

IsStop(op) == op \in {"DISCONNECT", "UNLINK"}

\* UVC_EVENT_STREAMON, processStreamOnEvent up to the SdkFrameProvider constructor:
\* the BufferManager (allocOk: the buffers were allocated and mapped), the CameraConfig
\* from mV4l2Format and mFps, the Encoder with its copy of the config and its thread.
ProcessStreamOnEvent(allocOk) ==
    /\ ~crashed
    /\ listenerPc = "idle"
    /\ mListenToUVCFds
    /\ mUVCDevice
    /\ ~mFrameProvider
    /\ sessions < MaxSessions
    /\ sessions' = sessions + 1
    /\ listenerOp' = "STREAMON"
    /\ listenerPc' = "assign"
    /\ IF allocOk
       THEN /\ mProducerBufferItems' = ConstructedProducerItems
            /\ mConsumerBufferItem' = ConstructedConsumerItem
            /\ mTimestamp' = [b \in BufferIds |-> 0]
       ELSE UNCHANGED poolVars
    /\ mConfig' = [width |-> mV4l2Format.width, height |-> mV4l2Format.height,
                   fcc |-> mV4l2Format.pixelformat, fps |-> mFps]
    /\ mContinueEncoding' = TRUE
    /\ mRequestQueue' = <<>>
    /\ encoderPc' = "loop"
    /\ lastDelivered' = -1
    /\ UNCHANGED <<lifeVars, consumerVars, ctlVars, svcVars, devVars, mRequestLock,
                   workerRequest,
                   hardwareBuffers, ingressVars, takePc, driverQueue, crashed, accepted,
                   deliveredInOrder, lastIngress>>

\* mFrameProvider = std::make_shared<SdkFrameProvider>(...): the store to the member
AssignFrameProvider ==
    /\ ~crashed
    /\ listenerPc = "assign"
    /\ mFrameProvider' = TRUE
    /\ listenerPc' = "call_setStreamConfig"
    /\ UNCHANGED <<lifeVars, poolVars, consumerVars, ctlVars, svcVars, mUVCDevice,
                   mEpollOut, encVars,
                   hardwareBuffers, ingressVars, listenerOp, takePc, driverQueue,
                   sessions, crashed,
                   histVars>>

\* DeviceAsWebcamServiceManager::setStreamConfig / startStreaming / stopStreaming take
\* mSerializationLock and call the Java service.
ListenerHostCallEnter ==
    /\ ~crashed
    /\ listenerPc \in DOMAIN HostCallOf
    /\ mSerializationLock = "free"
    /\ mSerializationLock' = "listener"
    /\ listenerPc' = HostCallOf[listenerPc]
    /\ jniLog' = IF mServiceRunning
                 THEN Append(jniLog, Notification(listenerPc, mConfig))
                 ELSE jniLog
    /\ UNCHANGED <<mListenToUVCFds, pendingEvents, mainPc, poolVars, consumerVars,
                   ctlVars, mServiceRunning, mJniThread, devVars,
                   encVars, hardwareBuffers, ingressVars, listenerOp, takePc,
                   driverQueue, sessions,
                   crashed, histVars>>

\* The Java call returns and mSerializationLock is released. After stopStreaming the
\* SdkFrameProvider destructor goes on to mEncoder.reset(): ~Encoder clears
\* mContinueEncoding before it joins the thread.
ListenerHostCallLeave ==
    /\ ~crashed
    /\ listenerPc \in DOMAIN AfterHostCall
    /\ mSerializationLock' = "free"
    /\ listenerPc' = AfterHostCall[listenerPc]
    /\ IF listenerPc = "in_stopStreaming"
       THEN /\ mContinueEncoding' = FALSE
            /\ mFrameProvider' = FALSE
       ELSE UNCHANGED <<mContinueEncoding, mFrameProvider>>
    /\ UNCHANGED <<lifeVars, poolVars, consumerVars, ctlVars, mServiceRunning,
                   mJniThread, mUVCDevice,
                   mEpollOut, mRequestLock, mRequestQueue, mConfig, encoderPc, workerRequest,
                   hardwareBuffers, ingressVars, listenerOp, takePc, driverQueue,
                   sessions, crashed,
                   histVars>>

\* getFrameAndQueueBufferToGadgetDriver(true): VIDIOC_STREAMON, then into
\* getFilledBufferAndSwap.
StreamOnIoctl(ok) ==
    /\ ~crashed
    /\ listenerPc = "streamOnIoctl"
    /\ IF ok
       THEN /\ listenerPc' = "take"
            /\ takePc' = "locked"
            /\ UNCHANGED listenerOp
       ELSE /\ listenerPc' = "idle"
            /\ listenerOp' = "none"
            /\ UNCHANGED takePc
    /\ UNCHANGED driverQueue
    /\ UNCHANGED <<lifeVars, poolVars, consumerVars, ctlVars, svcVars, devVars, encVars,
                   hardwareBuffers, ingressVars, sessions, crashed, histVars>>

\* BufferManager::getFilledBufferAndSwap inside the listener: under the pool lock, scan
\* for the newest Filled buffer and swap it with the consumer's, or wait on the
\* condition variable (woken by queueFilledBuffer or spuriously) and scan again.
TakeFilledBuffer ==
    /\ ~crashed
    /\ listenerPc = "take"
    /\ takePc \in {"locked", "waiting"}
    /\ LET r == filledProducerBufferAvailableLocked(mProducerBufferItems, mTimestamp, 0)
           s == SwapWithConsumer(r.items, mConsumerBufferItem, r.index)
           ts == mTimestamp[s.cons.buffer]
       IN
       IF r.found
       THEN /\ mProducerBufferItems' = s.items
            /\ mConsumerBufferItem' = s.cons
            /\ takePc' = "idle"
            /\ listenerPc' = "qbuf"
            /\ deliveredInOrder' = (deliveredInOrder /\ lastDelivered <= ts)
            /\ lastDelivered' = ts
       ELSE /\ mProducerBufferItems' = r.items
            /\ takePc' = "waiting"
            /\ UNCHANGED <<mConsumerBufferItem, listenerPc, deliveredInOrder,
                           lastDelivered>>
    /\ UNCHANGED driverQueue
    /\ UNCHANGED <<lifeVars, mTimestamp, consumerVars, ctlVars, svcVars, devVars, encVars,
                   hardwareBuffers, ingressVars, listenerOp, sessions, crashed, accepted,
                   lastIngress>>

\* A listener that gives the session up when VIDIOC_QBUF fails: it clears its loop flag
\* and leaves the loop.
QueueBufferToGadget_FailureLeavesLoop(ok) ==
    /\ ~crashed
    /\ listenerPc = "qbuf"
    /\ listenerPc' = IF ok THEN "idle" ELSE "done"
    /\ listenerOp' = "none"
    /\ mListenToUVCFds' = ok
    /\ mEpollOut' = IF ok /\ listenerOp = "STREAMON" THEN TRUE ELSE mEpollOut
    /\ driverQueue' = IF ok
                      THEN Append(driverQueue, mConsumerBufferItem.buffer)
                      ELSE driverQueue
    /\ UNCHANGED <<pendingEvents, mainPc, jniLog, poolVars, consumerVars, ctlVars, svcVars,
                   mUVCDevice, mFrameProvider,
                   encVars, hardwareBuffers, ingressVars, takePc, sessions, crashed,
                   histVars>>

\* VIDIOC_QBUF of the consumer buffer, which the driver owns from then on if the ioctl
\* succeeds; after the first one of a session, watchStreamEvent adds EPOLLOUT to the
\* events the listener waits for.
QueueBufferToGadget(ok) ==
    /\ ~crashed
    /\ listenerPc = "qbuf"
    /\ listenerPc' = "idle"
    /\ listenerOp' = "none"
    /\ mEpollOut' = IF ok /\ listenerOp = "STREAMON" THEN TRUE ELSE mEpollOut
    /\ driverQueue' = IF ok
                      THEN Append(driverQueue, mConsumerBufferItem.buffer)
                      ELSE driverQueue
    /\ UNCHANGED <<lifeVars, poolVars, consumerVars, ctlVars, svcVars, mUVCDevice,
                   mFrameProvider,
                   encVars, hardwareBuffers, ingressVars, takePc, sessions, crashed,
                   histVars>>

\* ListenToUVCFds, an epoll entry of the V4L2 descriptor with EPOLLOUT and without
\* EPOLLPRI: mUVCDevice is not null and processStreamEvent is entered.
ListenerWritableEvent ==
    /\ ~crashed
    /\ listenerPc = "idle"
    /\ mListenToUVCFds
    /\ mUVCDevice
    /\ mEpollOut
    /\ listenerPc' = "streamEvent"
    /\ UNCHANGED <<lifeVars, poolVars, consumerVars, ctlVars, svcVars, devVars, encVars,
                   hardwareBuffers, ingressVars, listenerOp, takePc, driverQueue, sessions,
                   crashed, histVars>>


\* UVC_EVENT_STREAMOFF, processStreamOffEvent: the VIDIOC_STREAMOFF ioctl; when it fails
\* the handler returns with the session left as it is, when it succeeds the driver has
\* let go of every buffer it held. out: the epoll entry that brought
\* the event has EPOLLOUT set next to EPOLLPRI, which takes EPOLLOUT to be watched.
ProcessStreamOffEvent(ok, out) ==
    /\ ~crashed
    /\ listenerPc = "idle"
    /\ mListenToUVCFds
    /\ mUVCDevice
    /\ out => mEpollOut
    /\ listenerOp' = "STREAMOFF"
    /\ listenerPc' = IF ok THEN "reset" ELSE "modify"
    /\ driverQueue' = IF ok THEN <<>> ELSE driverQueue
    /\ pendingEvents' = IF out THEN <<"out">> ELSE pendingEvents
    /\ UNCHANGED <<mListenToUVCFds, mainPc, jniLog, poolVars, consumerVars, ctlVars,
                   svcVars, devVars,
                   encVars, hardwareBuffers, ingressVars, takePc, sessions, crashed,
                   histVars>>

\* mBufferManager.reset() and the memsets of mCommit, mProbe and mV4l2Format, mFps = 0
StreamOffClear ==
    /\ mProducerBufferItems' = <<>>
    /\ mConsumerBufferItem' = BufferItem(-1, FREE)
    /\ mTimestamp' = <<>>
    /\ mCommit' = ZeroStreamingControl
    /\ mProbe' = ZeroStreamingControl
    /\ mV4l2Format' = ZeroV4l2Format
    /\ mFps' = 0
    /\ UNCHANGED <<lifeVars, formats, mCurrentControlState, ctlFault, lastEvent>>

\* Where the listener goes when processStreamOffEvent returns: to the mEpollW.modify
\* of processUVCEvent after a STREAMOFF event, on with stopService otherwise.
AfterStreamOff ==
    /\ listenerPc' = IF IsStop(listenerOp) THEN "signal" ELSE "modify"
    /\ UNCHANGED listenerOp

\* ListenToUVCFds after processUVCEvent has returned, for an entry with both bits:
\* it calls processStreamEvent unless mUVCDevice is null, and goes on (to `next`).
AfterPriorityEvent(events, device, next) ==
    IF events = <<"out">> /\ device THEN "streamEvent" ELSE next

\* processUVCEvent after processStreamOffEvent has returned, whatever it did:
\* mEpollW.modify(fd, EPOLLPRI) takes EPOLLOUT out of the watched events, and the
\* listener is back in its loop, where the EPOLLOUT of the same entry comes next.
ModifyEpollEvents ==
    /\ ~crashed
    /\ listenerPc = "modify"
    /\ mEpollOut' = FALSE
    /\ listenerPc' = AfterPriorityEvent(pendingEvents, mUVCDevice, "idle")
    /\ pendingEvents' = <<>>
    /\ listenerOp' = "none"
    /\ UNCHANGED <<mListenToUVCFds, mainPc, jniLog, poolVars, consumerVars, ctlVars,
                   svcVars, mUVCDevice,
                   mFrameProvider, encVars, hardwareBuffers, ingressVars, takePc,
                   driverQueue, sessions,
                   crashed, histVars>>

\* processStreamEvent, entered for an EPOLLOUT entry or for the EPOLLOUT bit of an entry
\* whose EPOLLPRI has just been handled: VIDIOC_DQBUF, which can return a buffer only
\* if the driver holds one; when it fails the handler returns, otherwise it goes on to
\* getFrameAndQueueBufferToGadgetDriver, which dereferences mBufferManager.
ProcessStreamEvent(dqOk) ==
    /\ ~crashed
    /\ listenerPc = "streamEvent"
    /\ dqOk => driverQueue # <<>>
    /\ IF ~dqOk
       THEN /\ listenerPc' = "idle"
            /\ UNCHANGED <<listenerOp, takePc, driverQueue, crashed>>
       ELSE IF mProducerBufferItems = <<>> /\ ~mFrameProvider
       THEN /\ crashed' = TRUE
            /\ listenerPc' = "nullBufferManager"
            /\ driverQueue' = Tail(driverQueue)
            /\ UNCHANGED <<listenerOp, takePc>>
       ELSE /\ listenerOp' = "STREAM"
            /\ listenerPc' = "take"
            /\ takePc' = "locked"
            /\ driverQueue' = Tail(driverQueue)
            /\ UNCHANGED crashed
    /\ UNCHANGED <<lifeVars, poolVars, consumerVars, ctlVars, svcVars, devVars, encVars,
                   hardwareBuffers, ingressVars, sessions, histVars>>

\* mFrameProvider.reset(): the member is emptied, then the SdkFrameProvider, if there
\* was one, is destroyed, which begins with stopStreaming(). Without a provider the rest
\* of processStreamOffEvent follows at once.
ResetFrameProvider ==
    /\ ~crashed
    /\ listenerPc = "reset"
    /\ IF mFrameProvider
       THEN /\ mFrameProvider' = FALSE
            /\ listenerPc' = "call_stopStreaming"
            /\ UNCHANGED <<poolVars, ctlVars, listenerOp>>
       ELSE /\ StreamOffClear
            /\ AfterStreamOff
            /\ UNCHANGED mFrameProvider
    /\ UNCHANGED <<lifeVars, consumerVars, svcVars, mUVCDevice, mEpollOut, encVars,
                   hardwareBuffers,
                   ingressVars, takePc, driverQueue, sessions, crashed, histVars>>

\* An ~Encoder that clears the flag and does not join: the objects are destroyed while
\* the worker may still be encoding.
JoinEncoderThread_DetachesWorker ==
    /\ ~crashed
    /\ listenerPc = "join"
    /\ encoderPc # "none"
    /\ encoderPc' = "none"
    /\ mRequestQueue' = <<>>
    /\ mConfig' = NoConfig
    /\ workerRequest' = NoRequest
    /\ mContinueEncoding' = TRUE
    /\ IF mUVCDevice
       THEN /\ StreamOffClear
            /\ AfterStreamOff
       ELSE /\ mProducerBufferItems' = <<>>
            /\ mConsumerBufferItem' = BufferItem(-1, FREE)
            /\ mTimestamp' = <<>>
            /\ listenerPc' = "afterStop"
            /\ UNCHANGED <<ctlVars, listenerOp>>
    /\ mListenToUVCFds' = (mUVCDevice /\ mListenToUVCFds)
    /\ UNCHANGED <<pendingEvents, mainPc, jniLog, consumerVars, svcVars, devVars,
                   mRequestLock, hardwareBuffers,
                   ingressVars, takePc, driverQueue, sessions, crashed, histVars>>

\* ~Encoder: mEncoderThread.join() returns once the worker has ended; the Encoder with
\* its request queue, the SdkFrameProvider with its buffer map, and the BufferManager
\* are destroyed. In processStreamOffEvent the control state is then cleared; in
\* ~UVCDevice the listener is done.
JoinEncoderThread ==
    /\ ~crashed
    /\ listenerPc = "join"
    /\ encoderPc = "exited"
    /\ encoderPc' = "none"
    /\ mRequestQueue' = <<>>
    /\ mConfig' = NoConfig
    /\ workerRequest' = NoRequest
    /\ mContinueEncoding' = TRUE
    /\ IF mUVCDevice
       THEN /\ StreamOffClear
            /\ AfterStreamOff
       ELSE /\ mProducerBufferItems' = <<>>
            /\ mConsumerBufferItem' = BufferItem(-1, FREE)
            /\ mTimestamp' = <<>>
            /\ listenerPc' = "afterStop"
            /\ UNCHANGED <<ctlVars, listenerOp>>
    /\ mListenToUVCFds' = (mUVCDevice /\ mListenToUVCFds)
    /\ UNCHANGED <<pendingEvents, mainPc, jniLog, consumerVars, svcVars, devVars,
                   mRequestLock, hardwareBuffers,
                   ingressVars, takePc, driverQueue, sessions, crashed, histVars>>

\* UVCProvider::stopService, called by processUVCEvent for UVC_EVENT_DISCONNECT and by
\* processINotifyEvent when the device node is gone (kind); batch holds the entries that
\* epoll_wait returned behind this one. It calls processStreamOffEvent (ok: its ioctl
\* succeeds) and removes the device's descriptors from epoll.
StopServiceEvent(kind, batch, ok) ==
    /\ ~crashed
    /\ listenerPc = "idle"
    /\ mListenToUVCFds
    /\ mUVCDevice
    /\ listenerOp' = kind
    /\ pendingEvents' = batch
    /\ listenerPc' = IF ok THEN "reset" ELSE "signal"
    /\ driverQueue' = IF ok THEN <<>> ELSE driverQueue
    /\ UNCHANGED <<mListenToUVCFds, mainPc, jniLog, poolVars, consumerVars, ctlVars,
                   svcVars, mUVCDevice, mFrameProvider, mEpollOut,
                   encVars, hardwareBuffers, ingressVars, takePc, sessions, crashed,
                   histVars>>

\* UVCProvider::stopService once processStreamOffEvent has returned: both descriptors
\* are removed from epoll, then DeviceAsWebcamServiceManager::stopService starts, under
\* mSerializationLock, the thread that calls stopService of the Java service.
SignalStopService ==
    /\ ~crashed
    /\ listenerPc = "signal"
    /\ mSerializationLock = "free"
    /\ mJniThread' = IF mServiceRunning THEN "stopService" ELSE mJniThread
    /\ listenerPc' = "resetDevice"
    /\ mEpollOut' = FALSE
    /\ UNCHANGED <<lifeVars, poolVars, consumerVars, ctlVars, mServiceRunning,
                   mSerializationLock,
                   mUVCDevice, mFrameProvider, encVars, hardwareBuffers, ingressVars,
                   listenerOp, takePc, driverQueue,
                   sessions, crashed, histVars>>

\* mUVCDevice = nullptr: the member is emptied and the UVCDevice destroyed. Its
\* descriptor mUVCFd, declared last, is closed first, which ends the driver's hold on
\* any buffer. A frame provider that outlived a failed VIDIOC_STREAMOFF is destroyed
\* with it, beginning with stopStreaming(); otherwise stopService ends with
\* mListenToUVCFds = false.
ResetUVCDevice ==
    /\ ~crashed
    /\ listenerPc = "resetDevice"
    /\ mUVCDevice' = FALSE
    /\ driverQueue' = <<>>
    /\ IF mFrameProvider
       THEN /\ listenerPc' = "call_stopStreaming"
            /\ UNCHANGED mListenToUVCFds
       ELSE /\ listenerPc' = "afterStop"
            /\ mListenToUVCFds' = FALSE
    /\ UNCHANGED <<listenerOp, pendingEvents, mainPc, jniLog, poolVars, consumerVars,
                   ctlVars, svcVars, mFrameProvider, mEpollOut,
                   encVars, hardwareBuffers, ingressVars, takePc, sessions, crashed,
                   histVars>>

\* ListenToUVCFds once stopService has returned. processINotifyEvent returned true: the
\* loop over the batch is left and the while loop ends. processUVCEvent returned: the
\* EPOLLOUT of the same entry, if set, is passed over because mUVCDevice is null, and
\* the loop goes on to the next entry of the batch, if there is one, and evaluates
\* mUVCDevice->getINotifyFd() with mUVCDevice null.
ListenerAfterStop ==
    /\ ~crashed
    /\ listenerPc = "afterStop"
    /\ IF listenerOp = "DISCONNECT" /\ pendingEvents = <<"inotify">>
       THEN /\ crashed' = TRUE
            /\ listenerPc' = "nullDeref"
            /\ UNCHANGED pendingEvents
       ELSE /\ listenerPc' = AfterPriorityEvent(pendingEvents, mUVCDevice, "done")
            /\ pendingEvents' = <<>>
            /\ UNCHANGED crashed
    /\ UNCHANGED <<mListenToUVCFds, mainPc, jniLog, poolVars, consumerVars, ctlVars,
                   svcVars,
                   devVars, encVars, hardwareBuffers, ingressVars, listenerOp, takePc,
                   driverQueue,
                   sessions, histVars>>

\* The thread started by stopService calls the Java service and ends.
JniStopService ==
    /\ ~crashed
    /\ mJniThread = "stopService"
    /\ mJniThread' = "finished"
    /\ jniLog' = Append(jniLog, JniCall("stopService", <<>>))
    /\ UNCHANGED <<mListenToUVCFds, pendingEvents, mainPc, poolVars, consumerVars,
                   ctlVars, mServiceRunning, mSerializationLock,
                   devVars, encVars, hardwareBuffers, ingressVars, listenerVars, crashed,
                   histVars>>

Next ==
    \/ \E ts \in Timestamps : EncodeImageEnter(ts)
    \/ EncodeImageReadDevice
    \/ \E ub \in {"crash", "value"} : EncodeImageReadProvider(ub)
    \/ \E lockOk \in BOOLEAN : EncodeImageAcquire(lockOk)
    \/ EncodeImageQueueRequest
    \/ EncoderLoop
    \/ EncoderWake
    \/ \E success \in BOOLEAN : EncoderEncode(success)
    \/ EncoderReturnImageEnter
    \/ EncoderReturnImageLeave
    \/ EncoderDrain
    \/ \E allocOk \in BOOLEAN : ProcessStreamOnEvent(allocOk)
    \/ AssignFrameProvider
    \/ ListenerHostCallEnter
    \/ ListenerHostCallLeave
    \/ \E ok \in BOOLEAN : StreamOnIoctl(ok)
    \/ TakeFilledBuffer
    \/ \E ok \in BOOLEAN : QueueBufferToGadget(ok)
    \/ ListenerWritableEvent
    \/ \E dqOk \in BOOLEAN : ProcessStreamEvent(dqOk)
    \/ \E ok \in BOOLEAN : ProcessStreamOffEvent(ok, FALSE)
    \/ ResetFrameProvider
    \/ JoinEncoderThread
    \/ ModifyEpollEvents
    \/ \E ok \in BOOLEAN : StopServiceEvent("DISCONNECT", <<>>, ok)
    \/ SignalStopService
    \/ ResetUVCDevice
    \/ ListenerAfterStop
    \/ JniStopService

Spec == InitService /\ [][Next]_vars

(***************************************************************************)
(* The life of the service: SpecLife starts from the constructed           *)
(* DeviceAsWebcamServiceManager, before setupServicesAndStartListening,    *)
(* and adds the start of the service, the COMMIT of a format, the two      *)
(* shutdown signals with the epoll batch they arrive in, the inotify event *)
(* that is no removal, and onDestroy of the Java service.                  *)
(***************************************************************************)
MaxLifeImages == 2
MaxSetups == 2

\* What can happen while the service starts: every step succeeds, or the one named fails.
StartOutcomes ==
    {"ok", "epoll_create1", "no_video_node", "open", "inotify_init", "inotify_add_watch",
     "VIDIOC_QUERYCAP", "no_video_output", "VIDIOC_SUBSCRIBE_EVENT"}

\* UVCDevice::openV4L2DeviceAndSubscribe: open(O_RDWR), inotify_init, inotify_add_watch,
\* VIDIOC_QUERYCAP, the V4L2_CAP_VIDEO_OUTPUT test and the five VIDIOC_SUBSCRIBE_EVENT
\* ioctls; the first that fails makes it return Status::ERROR.
openV4L2DeviceAndSubscribe(outcome) ==
    IF outcome \in {"open", "inotify_init", "inotify_add_watch", "VIDIOC_QUERYCAP",
                    "no_video_output", "VIDIOC_SUBSCRIBE_EVENT"}
    THEN "ERROR"
    ELSE "OK"

\* A constructor that takes the device for inited although an event subscription failed.
isInited_IgnoresSubscribe(outcome) ==
    outcome \notin {"no_video_node", "open", "inotify_init", "inotify_add_watch",
                    "VIDIOC_QUERYCAP", "no_video_output"}

\* UVCDevice::UVCDevice sets mInited only with a video node found and the device opened
\* and subscribed.
isInited(outcome) ==
    /\ outcome # "no_video_node"
    /\ openV4L2DeviceAndSubscribe(outcome) = "OK"

\* UVCProvider::startService: Status::ERROR, before the listener thread is touched, when
\* the new UVCDevice is not inited.
startService(outcome) == IF isInited(outcome) THEN "OK" ELSE "ERROR"

\* The return value of setupServicesAndStartListening: -1 when UVCProvider::init or
\* startService fails.
SetupResult(outcome) ==
    IF outcome = "epoll_create1" \/ startService(outcome) # "OK" THEN -1 ELSE 0

SetupCalls == Cardinality({i \in DOMAIN jniLog : jniLog[i].call = "setupServicesAndStartListening"})

\* DeviceAsWebcamServiceManager::setupServicesAndStartListening, all of it under
\* mSerializationLock. The log entry holds what happened and the value returned.
SetupServicesAndStartListening(outcome) ==
    /\ ~crashed
    /\ mainPc = "idle"
    /\ mSerializationLock = "free"
    /\ listenerPc = "notStarted"
    /\ SetupCalls < MaxSetups
    /\ jniLog' = Append(jniLog, JniCall("setupServicesAndStartListening",
                                        <<outcome, SetupResult(outcome)>>))
    /\ mUVCDevice' = (outcome # "epoll_create1")
    /\ IF isInited(outcome) /\ outcome # "epoll_create1"
       THEN /\ formats' = SessionCatalogue
            /\ mCommit' = setStreamingControl(ZeroStreamingControl, defaultFormatTriplet,
                                              SessionCatalogue)
            /\ listenerPc' = "idle"
            /\ mListenToUVCFds' = TRUE
       ELSE UNCHANGED <<formats, mCommit, listenerPc, mListenToUVCFds>>
    /\ mServiceRunning' = (SetupResult(outcome) = 0)
    /\ UNCHANGED <<poolVars, consumerVars, mProbe, mCurrentControlState, mV4l2Format, mFps,
                   ctlFault, lastEvent, mSerializationLock, mJniThread, mFrameProvider,
                   mEpollOut, encVars, hardwareBuffers, ingressVars, listenerOp, takePc,
                   driverQueue,
                   sessions, crashed, histVars, pendingEvents, mainPc>>

\* The listener is in epoll_wait with its loop condition true and the device open.
ListenerAtEpoll ==
    /\ ~crashed
    /\ listenerPc = "idle"
    /\ mListenToUVCFds
    /\ mUVCDevice

SetCurCommit ==
    CtrlRequest("CLASS", "INTERFACE", STREAMING_INTERFACE_IDX, "SET_CUR",
                UVC_VS_COMMIT_CONTROL, SizeofStreamingControl)

LifeTriplets == {FormatTriplet(f, 1, U32(0)) : f \in 1..MaxFormats}

\* ListenToUVCFds: the while loop finds mListenToUVCFds false and the thread ends.
ListenerExit ==
    /\ ~crashed
    /\ listenerPc = "idle"
    /\ ~mListenToUVCFds
    /\ listenerPc' = "done"
    /\ UNCHANGED <<poolVars, consumerVars, ctlVars, svcVars, devVars, encVars,
                   hardwareBuffers, ingressVars, listenerOp, takePc, driverQueue,
                   sessions, crashed,
                   histVars, lifeVars>>

\* processINotifyEvent for an IN_ATTRIB event while the node is still there: the events
\* read are skipped and the loop calls read() again on the inotify descriptor, which
\* inotify_init() opened blocking.
ProcessINotifyAttrib ==
    /\ ListenerAtEpoll
    /\ listenerOp' = "INOTIFY"
    /\ listenerPc' = "read"
    /\ UNCHANGED <<poolVars, consumerVars, ctlVars, svcVars, devVars, encVars,
                   hardwareBuffers, ingressVars, takePc, driverQueue, sessions, crashed,
                   histVars,
                   lifeVars>>

\* The read() returns with the event of the node's removal: stopService, as in
\* StopServiceEvent (ok: the VIDIOC_STREAMOFF ioctl succeeds).
INotifyReadRemoval(ok) ==
    /\ ~crashed
    /\ listenerPc = "read"
    /\ listenerOp' = "UNLINK"
    /\ listenerPc' = IF ok THEN "reset" ELSE "signal"
    /\ driverQueue' = IF ok THEN <<>> ELSE driverQueue
    /\ UNCHANGED <<poolVars, consumerVars, ctlVars, svcVars, mUVCDevice, mFrameProvider,
                   mEpollOut, encVars, hardwareBuffers, ingressVars, takePc, sessions, crashed,
                   histVars, lifeVars>>

\* DeviceAsWebcamServiceManager::onDestroy of a running service: under
\* mSerializationLock, mUVCProvider = nullptr runs ~UVCProvider, which clears
\* mListenToUVCFds and joins the listener thread.
OnDestroyEnter ==
    /\ ~crashed
    /\ mainPc = "idle"
    /\ mSerializationLock = "free"
    /\ mServiceRunning
    /\ mSerializationLock' = "main"
    /\ mListenToUVCFds' = FALSE
    /\ mainPc' = "join"
    /\ UNCHANGED <<poolVars, consumerVars, ctlVars, mServiceRunning, mJniThread, devVars,
                   encVars, hardwareBuffers, ingressVars, listenerVars, crashed, histVars,
                   pendingEvents, jniLog>>

\* ~UVCProvider once the join has returned: the descriptors leave epoll and
\* mUVCDevice = nullptr destroys the device. With a frame provider alive,
\* ~SdkFrameProvider calls stopStreaming(); without one onDestroy finishes.
OnDestroyJoin ==
    /\ ~crashed
    /\ mainPc = "join"
    /\ listenerPc = "done"
    /\ mUVCDevice' = FALSE
    /\ mEpollOut' = FALSE
    /\ driverQueue' = <<>>
    /\ IF mUVCDevice /\ mFrameProvider
       THEN /\ mainPc' = "call_stopStreaming"
            /\ UNCHANGED <<mServiceRunning, mSerializationLock>>
       ELSE /\ mainPc' = "idle"
            /\ mServiceRunning' = FALSE
            /\ mSerializationLock' = "free"
    /\ UNCHANGED <<poolVars, consumerVars, ctlVars, mJniThread, mFrameProvider, encVars,
                   hardwareBuffers, ingressVars, listenerOp, listenerPc, takePc, sessions,
                   crashed, histVars, mListenToUVCFds, pendingEvents, jniLog>>

\* DeviceAsWebcamServiceManager::stopStreaming called from inside onDestroy: a
\* lock_guard on mSerializationLock, which this thread owns. Locking a std::mutex the
\* caller owns is undefined: the thread blocks for ever, or the process ends.
OnDestroyRelock(ub) ==
    /\ ~crashed
    /\ mainPc = "call_stopStreaming"
    /\ IF ub = "crash"
       THEN /\ crashed' = TRUE
            /\ UNCHANGED mainPc
       ELSE /\ mainPc' = "deadlocked"
            /\ UNCHANGED crashed
    /\ UNCHANGED <<poolVars, consumerVars, ctlVars, svcVars, devVars, encVars,
                   hardwareBuffers, ingressVars, listenerVars, histVars, mListenToUVCFds,
                   pendingEvents, jniLog>>

\* What epoll_wait can return behind the EPOLLPRI or EPOLLIN of a shutdown signal: an
\* entry of the other of the two descriptors, the EPOLLOUT bit of the same entry while
\* EPOLLOUT is watched, or nothing.
BatchBehind(kind) ==
    IF kind = "DISCONNECT"
    THEN {<<>>, <<"inotify">>} \cup (IF mEpollOut THEN {<<"out">>} ELSE {})
    ELSE {<<>>, <<"uvc">>}

\* The constructed manager: nothing running, no provider, no listener thread.
InitConstructed ==
    /\ InitNoDevice
    /\ InitNoPool
    /\ mServiceRunning = FALSE
    /\ mSerializationLock = "free"
    /\ mJniThread = "none"
    /\ mUVCDevice = FALSE
    /\ mFrameProvider = FALSE
    /\ mEpollOut = FALSE
    /\ mRequestLock = "free"
    /\ mRequestQueue = <<>>
    /\ mContinueEncoding = TRUE
    /\ mConfig = NoConfig
    /\ encoderPc = "none"
    /\ workerRequest = NoRequest
    /\ hardwareBuffers = [i \in Images |-> "none"]
    /\ ingressPc = "idle"
    /\ ingressCall = NoCall
    /\ calls = 0
    /\ listenerOp = "none"
    /\ listenerPc = "notStarted"
    /\ takePc = "idle"
    /\ driverQueue = <<>>
    /\ sessions = 0
    /\ crashed = FALSE
    /\ accepted = {}
    /\ lastDelivered = -1
    /\ deliveredInOrder = TRUE
    /\ lastIngress = NoIngress
    /\ mListenToUVCFds = TRUE
    /\ pendingEvents = <<>>
    /\ mainPc = "idle"
    /\ jniLog = <<>>

NextLife ==
    \/ \E outcome \in StartOutcomes : SetupServicesAndStartListening(outcome)
    \/ (calls < MaxLifeImages /\ EncodeImageEnter(1))
    \/ EncodeImageReadDevice
    \/ \E ub \in {"crash", "value"} : EncodeImageReadProvider(ub)
    \/ \E lockOk \in BOOLEAN : EncodeImageAcquire(lockOk)
    \/ EncodeImageQueueRequest
    \/ EncoderLoop
    \/ EncoderWake
    \/ \E success \in BOOLEAN : EncoderEncode(success)
    \/ EncoderReturnImageEnter
    \/ EncoderReturnImageLeave
    \/ EncoderDrain
    \/ (ListenerAtEpoll /\ ~mFrameProvider /\ CtlSetupEvent(SetCurCommit, TRUE))
    \/ (ListenerAtEpoll /\ ~mFrameProvider /\ \E triplet \in LifeTriplets : CtlDataEvent(triplet))
    \/ \E allocOk \in BOOLEAN : ProcessStreamOnEvent(allocOk)
    \/ AssignFrameProvider
    \/ ListenerHostCallEnter
    \/ ListenerHostCallLeave
    \/ \E ok \in BOOLEAN : StreamOnIoctl(ok)
    \/ TakeFilledBuffer
    \/ \E ok \in BOOLEAN : QueueBufferToGadget(ok)
    \/ ListenerWritableEvent
    \/ \E dqOk \in BOOLEAN : ProcessStreamEvent(dqOk)
    \/ \E ok, out \in BOOLEAN : ProcessStreamOffEvent(ok, out)
    \/ ResetFrameProvider
    \/ JoinEncoderThread
    \/ ModifyEpollEvents
    \/ \E kind \in {"DISCONNECT", "UNLINK"}, ok \in BOOLEAN :
          \E batch \in BatchBehind(kind) : StopServiceEvent(kind, batch, ok)
    \/ ProcessINotifyAttrib
    \/ \E ok \in BOOLEAN : INotifyReadRemoval(ok)
    \/ SignalStopService
    \/ ResetUVCDevice
    \/ ListenerAfterStop
    \/ ListenerExit
    \/ JniStopService
    \/ OnDestroyEnter
    \/ OnDestroyJoin
    \/ \E ub \in {"crash", "deadlock"} : OnDestroyRelock(ub)

SpecLife == InitConstructed /\ [][NextLife]_vars

(***************************************************************************)
(* Properties of the running service                                       *)
(***************************************************************************)
\* C2: within one streaming session the buffers returned by successive
\* getFilledBufferAndSwap calls have non-decreasing timestamps.
C2_DeliveredInTimestampOrder == deliveredInOrder

\* No encoder thread is left to complete a request of the session.
EncoderGone == encoderPc \in {"none", "exited"}

\* C3: the hardware buffer of every accepted encodeImage call is released once the
\* request has gone through the encoder: with the encoder thread ended, no accepted
\* image's hardware buffer is still held.
C3_AcceptedReleased ==
    EncoderGone => \A i \in accepted : hardwareBuffers[i] = "released"

\* C4: an encodeImage call that reaches the pool while no producer slot is Free returns
\* the no-free-slot error with its hardware buffer released, no request enqueued for
\* it and the pool as the call found it.
C4_BackpressureDrop ==
    (lastIngress.outcome \in {"OK", "NO_FREE_SLOT"} /\ lastIngress.noFree) =>
        /\ lastIngress.outcome = "NO_FREE_SLOT"
        /\ hardwareBuffers[lastIngress.image] = "released"
        /\ ~lastIngress.enqueued
        /\ lastIngress.image \notin accepted
        /\ \A k \in 1..Len(mRequestQueue) : mRequestQueue[k].image # lastIngress.image
        /\ lastIngress.poolUnchanged

\* The call has just returned the error with all producer slots of the session's pool
\* InUse or Filled.
C4_Witness ==
    /\ ingressPc = "idle"
    /\ lastIngress.outcome = "NO_FREE_SLOT"
    /\ lastIngress.noFree
    /\ Len(mProducerBufferItems) = NUM_BUFFERS_ALLOC - 1
    /\ NoFree(mProducerBufferItems)
    /\ hardwareBuffers[lastIngress.image] = "released"

\* The encoder thread, the listener thread is inside a call of the Java service.
EncoderInHostCall == encoderPc = "hostReturnImage" /\ mServiceRunning
ListenerInHostCall == listenerPc \in DOMAIN AfterHostCall /\ mServiceRunning

\* C6: a thread inside a call of the host service holds neither mSerializationLock nor
\* mRequestLock.
C6_NoLockAcrossHostCall ==
    /\ EncoderInHostCall => (mSerializationLock # "encoder" /\ mRequestLock # "encoder")
    /\ ListenerInHostCall => mSerializationLock # "listener"

\* The next step of the host thread reads mUVCDevice, reads mFrameProvider of the
\* UVCDevice it found; the next step of the listener writes mUVCDevice, mFrameProvider.
IngressReadsDevice == ingressPc = "encodeImage" /\ mServiceRunning
IngressReadsProvider == ingressPc = "device"
ListenerWritesDevice == listenerPc = "resetDevice"
ListenerWritesProvider == listenerPc \in {"assign", "reset"}

\* C7: encodeImage never reads or uses the device or frame-provider handle while the
\* listener is writing it, and never uses a destroyed device.
C7_HandleAccessSerialised ==
    /\ ~(IngressReadsDevice /\ ListenerWritesDevice)
    /\ ~(IngressReadsProvider /\ (ListenerWritesProvider \/ ListenerWritesDevice))
    /\ ~(IngressReadsProvider /\ ~mUVCDevice)
    /\ ~crashed

(***************************************************************************)
(* Properties of the control-plane events (SpecCtl)                        *)
(***************************************************************************)
\* The SETUP request is the class request bRequest to the streaming interface.
IsStreamingRequest(request, bRequest) ==
    /\ request.type = "CLASS"
    /\ request.recip = "INTERFACE"
    /\ request.interface = STREAMING_INTERFACE_IDX
    /\ request.bRequest = bRequest

\* The event handled by this step is a DATA event under the selector.
DataEventUnder(selector) ==
    lastEvent'.type = "DATA" /\ lastEvent'.selector = selector

\* C11: a DATA(t) event under selector PROBE stores negotiate(t) in mProbe and leaves
\* mCommit, mV4l2Format and mFps as they are; a GET_CUR(PROBE) that follows it is
\* answered with 48 bytes equal to mProbe (for t with non-zero indices: the clamped
\* indices, an interval of that frame, dwMaxPayloadTransferSize 3072), and a
\* GET_CUR(COMMIT) with 48 bytes equal to mCommit.
C11_ProbeReadBack ==
    [][ /\ DataEventUnder(UVC_VS_PROBE_CONTROL) =>
             /\ mProbe' = setStreamingControl(mProbe, lastEvent'.triplet, formats)
             /\ UNCHANGED <<mCommit, mV4l2Format, mFps>>
        /\ ( /\ lastEvent.type = "DATA"
             /\ lastEvent.selector = UVC_VS_PROBE_CONTROL
             /\ lastEvent'.type = "SETUP"
             /\ IsStreamingRequest(lastEvent'.request, "GET_CUR") ) =>
             LET t == lastEvent.triplet
                 cs == lastEvent'.request.controlSelect
                 response == lastEvent'.response
             IN
             /\ cs = UVC_VS_PROBE_CONTROL =>
                  /\ response.length = 48
                  /\ response.data = mProbe
                  /\ (t.formatIndex >= 1 /\ t.frameSizeIndex >= 1) =>
                       /\ response.data.bFormatIndex = Smaller(t.formatIndex, Len(formats))
                       /\ response.data.bFrameIndex =
                             Smaller(t.frameSizeIndex, Len(DesignatedFormat(t).frames))
                       /\ response.data.dwFrameInterval \in IntervalSet(DesignatedFrame(t))
                       /\ response.data.dwMaxPayloadTransferSize = USB_PAYLOAD_TRANSFER_SIZE
             /\ cs = UVC_VS_COMMIT_CONTROL =>
                  /\ response.length = 48
                  /\ response.data = mCommit
      ]_vars

\* C12: a DATA(t) event under selector COMMIT stores negotiate(t) in mCommit, issues
\* VIDIOC_S_FMT once with the width and height of the committed frame and the fourcc of
\* the committed format, sets mFps to 10000000 / mCommit.dwFrameInterval, and leaves
\* mProbe as it is.
C12_CommitApplies ==
    [][ DataEventUnder(UVC_VS_COMMIT_CONTROL) =>
          /\ mCommit' = setStreamingControl(mCommit, lastEvent'.triplet, formats)
          /\ mProbe' = mProbe
          /\ ctlFault' = "none"
          /\ lastEvent'.sFmt = "called"
          /\ LET chosenFormat == formats[mCommit'.bFormatIndex]
                 chosenFrame == chosenFormat.frames[mCommit'.bFrameIndex]
             IN
             /\ mV4l2Format'.width = chosenFrame.width
             /\ mV4l2Format'.height = chosenFrame.height
             /\ mV4l2Format'.pixelformat = chosenFormat.fcc
             /\ mFps' = U32Div(FRAME_INTERVAL_NUM, mCommit'.dwFrameInterval)
      ]_vars

\* C13: a class request to the streaming interface with selector PROBE or COMMIT is
\* answered with length 48 for SET_CUR, GET_CUR, GET_MAX, GET_MIN, GET_DEF and GET_RES
\* (GET_RES all zero), length 2 and the bytes 0x30, 0x00 for GET_LEN, length 1 and the
\* byte 0x3 for GET_INFO.
C13_ResponseLengths ==
    ( /\ lastEvent.type = "SETUP"
      /\ \E b \in UvcRequests : IsStreamingRequest(lastEvent.request, b)
      /\ lastEvent.request.controlSelect \in {UVC_VS_PROBE_CONTROL, UVC_VS_COMMIT_CONTROL} ) =>
        LET b == lastEvent.request.bRequest
            response == lastEvent.response
        IN
        /\ b \in {"SET_CUR", "GET_CUR", "GET_MAX", "GET_MIN", "GET_DEF", "GET_RES"} =>
             response.length = 48
        /\ b = "GET_RES" => response.data = ZeroStreamingControl
        /\ b = "GET_LEN" => (response.length = 2 /\ response.data.bmHint = 48)
        /\ b = "GET_INFO" => (response.length = 1 /\ response.data.bmHint % 256 = 3)

(***************************************************************************)
(* Properties of the life of the service (SpecLife)                        *)
(***************************************************************************)

\* The listener finishes the handling of a UVC_EVENT_STREAMOFF in this step.
StreamOffProcessed ==
    /\ listenerOp = "STREAMOFF"
    /\ listenerPc = "modify"
    /\ listenerPc' # "modify"

\* C14: after every UVC STREAMOFF event has been processed, the data plane is torn down
\* (no buffer pool, no encoder, no frame provider), mProbe, mCommit, mV4l2Format and mFps
\* are all zero, and the V4L2 descriptor is watched for EPOLLPRI only.
C14_StreamOffTearsDown ==
    [][StreamOffProcessed =>
         /\ mProducerBufferItems' = <<>>
         /\ mConsumerBufferItem' = BufferItem(-1, FREE)
         /\ encoderPc' = "none"
         /\ ~mFrameProvider'
         /\ mProbe' = ZeroStreamingControl
         /\ mCommit' = ZeroStreamingControl
         /\ mV4l2Format' = ZeroV4l2Format
         /\ mFps' = 0
         /\ ~mEpollOut']_vars

\* The last call across the JNI boundary was a setupServicesAndStartListening in which
\* a step of the start failed.
StartFailed ==
    /\ jniLog # <<>>
    /\ jniLog[Len(jniLog)].call = "setupServicesAndStartListening"
    /\ jniLog[Len(jniLog)].args[1] # "ok"

\* C15: when a step of the start fails (no video node, open, the inotify watch,
\* VIDIOC_QUERYCAP, no video-output capability, an event subscription),
\* setupServicesAndStartListening returns non-zero, no listener thread is started,
\* mServiceRunning stays false, and an encodeImage call that returns after it returns
\* the error of a service that is not running.
C15_StartFailureIsFatal ==
    [][/\ StartFailed' =>
            /\ jniLog'[Len(jniLog')].args[2] # 0
            /\ listenerPc' = "notStarted"
            /\ ~mServiceRunning'
       /\ (StartFailed /\ ingressPc = "encodeImage" /\ ingressPc' = "idle") =>
            lastIngress'.outcome = "NO_DEVICE"]_vars

C15_Witness ==
    /\ StartFailed
    /\ jniLog[Len(jniLog)].args[1] = "VIDIOC_SUBSCRIBE_EVENT"
    /\ listenerPc = "notStarted"
    /\ ~mServiceRunning
    /\ ingressPc = "idle"
    /\ lastIngress.outcome = "NO_DEVICE"
    /\ lastIngress.image = calls

\* The listener has come out of UVCProvider::stopService, called for either signal.
ShutdownProcessed ==
    /\ IsStop(listenerOp)
    /\ listenerPc \in {"afterStop", "nullDeref", "done"}

\* C16: the two shutdown signals have the same outcome. After a UVC_EVENT_DISCONNECT and
\* after the removal of the device node alike, the session is torn down, the descriptors
\* are out of epoll, mUVCDevice is null, mListenToUVCFds is false, the stopService
\* notification has been started, and the listener thread leaves its loop.
C16_ShutdownSignalsEquivalent ==
    ShutdownProcessed =>
        /\ ~mFrameProvider
        /\ encoderPc = "none"
        /\ mProducerBufferItems = <<>>
        /\ ~mEpollOut
        /\ ~mUVCDevice
        /\ ~mListenToUVCFds
        /\ mJniThread \in {"stopService", "finished"}
        /\ listenerPc \in {"afterStop", "done"}

\* How often the Java service's stopService has been called.
StopServiceUpcalls == Cardinality({i \in DOMAIN jniLog : jniLog[i].call = "stopService"})

\* The removal of the node has reached the listener, alone or in a batch with a
\* UVC_EVENT_DISCONNECT, and stopService has returned.
UnlinkProcessed ==
    /\ ShutdownProcessed
    /\ listenerOp = "UNLINK" \/ pendingEvents = <<"inotify">>

\* C17: when the video node is unlinked, the session is torn down, the encoder thread is
\* joined, the V4L2 descriptor is closed with the device, and the Java service's
\* stopService is called exactly once, never twice and never not at all, also when a
\* UVC_EVENT_DISCONNECT arrives with the removal.
C17_UnlinkTearsDownOnce ==
    /\ StopServiceUpcalls <= 1
    /\ mJniThread = "finished" => StopServiceUpcalls = 1
    /\ UnlinkProcessed =>
         /\ ~mFrameProvider
         /\ mProducerBufferItems = <<>>
         /\ encoderPc = "none"
         /\ ~mUVCDevice
         /\ mJniThread \in {"stopService", "finished"}
         /\ listenerPc # "nullDeref"

\* The listener thread is at a lock_guard on mSerializationLock.
WaitsForSerializationLock == listenerPc \in (DOMAIN HostCallOf) \cup {"signal"}

\* C18: once mListenToUVCFds has been cleared the listener thread leaves its loop, from
\* every state, also in the middle of a STREAMON and of an inotify event, so that a join
\* on it completes: a thread that has cleared the flag and waits in join never holds
\* what the listener needs to get back to its loop.
C18_JoinCompletes ==
    (mainPc = "join" /\ ~mListenToUVCFds) =>
        /\ ~(WaitsForSerializationLock /\ mSerializationLock = "main")
        /\ listenerPc # "read"

IsStreamCall(entry) == entry.call \in {"startStreaming", "stopStreaming"}

\* The startStreaming and stopStreaming notifications the Java service has received.
StreamCalls == SelectSeq(jniLog, IsStreamCall)

\* C19: startStreaming and stopStreaming alternate, beginning with startStreaming;
\* startStreaming is called only while a STREAMON is handled; and a session that is torn
\* down, by STREAMOFF, DISCONNECT, node removal or onDestroy, has had its one
\* stopStreaming: none is outstanding once the encoder is joined, and the thread that
\* destroys the frame provider gets through the call.
C19_StartStopBracketed ==
    /\ \A i \in DOMAIN StreamCalls :
         StreamCalls[i].call = IF i % 2 = 1 THEN "startStreaming" ELSE "stopStreaming"
    /\ listenerPc \in {"call_startStreaming", "in_startStreaming"} => listenerOp = "STREAMON"
    /\ encoderPc = "none" => Len(StreamCalls) % 2 = 0
    /\ mainPc # "deadlocked"
    /\ ~(crashed /\ mainPc = "call_stopStreaming")

\* The Java service's setStreamConfig is called in this step.
SetStreamConfigCalled ==
    /\ Len(jniLog') = Len(jniLog) + 1
    /\ jniLog'[Len(jniLog')].call = "setStreamConfig"

\* C20: on every STREAMON the Java service receives setStreamConfig(isMjpeg, width,
\* height, fps) with the values of the committed format, a YUYV or MJPEG format with
\* width, height and fps above zero, and receives it before the startStreaming of that
\* session.
C20_StreamConfigFromCommit ==
    [][SetStreamConfigCalled =>
         LET args == jniLog'[Len(jniLog')].args
             c == commitControls(mCommit, formats)
         IN
         /\ c.fault = "none"
         /\ c.mV4l2Format.pixelformat \in {V4L2_PIX_FMT_YUYV, V4L2_PIX_FMT_MJPEG}
         /\ args[1] = (c.mV4l2Format.pixelformat = V4L2_PIX_FMT_MJPEG)
         /\ args[2] = c.mV4l2Format.width /\ args[2] > 0
         /\ args[3] = c.mV4l2Format.height /\ args[3] > 0
         /\ args[4] = c.mFps /\ args[4] > 0
         /\ Len(StreamCalls) % 2 = 0]_vars

(***************************************************************************)
(* Properties of the buffer pool in the running service (Spec)             *)
(***************************************************************************)
\* The pool of the session has been allocated (allocateAndMapBuffers succeeded).
PoolAllocated == Len(mProducerBufferItems) = NUM_BUFFERS_ALLOC - 1

\* The buffers of the producer slots.
ProducerBuffers == {mProducerBufferItems[i].buffer : i \in 1..Len(mProducerBufferItems)}

\* The EncodeRequests alive in the data plane: the one SdkFrameProvider::encodeImage
\* has built and not yet enqueued, those in mRequestQueue, and the one the worker has
\* popped and is encoding or reporting through onEncoded.
PendingIngressBuffers ==
    IF ingressPc = "queueRequest" THEN {ingressCall.buffer} ELSE {}

QueuedBuffers == {mRequestQueue[i].buffer : i \in 1..Len(mRequestQueue)}

WorkerBuffers ==
    IF encoderPc \in {"encode", "returnImage", "hostReturnImage"}
    THEN {workerRequest.buffer}
    ELSE {}

RequestedBuffers == PendingIngressBuffers \cup QueuedBuffers \cup WorkerBuffers

\* C21: while a session's pool is allocated, the consumer slot and the three producer
\* slots hold four pairwise distinct buffers, always the four that were allocated; the
\* consumer's buffer is not what getFreeBufferIfAvailable would return and is not
\* referenced by any EncodeRequest.
C21_FourDistinctBuffers ==
    PoolAllocated =>
        /\ \A i, j \in 1..Len(mProducerBufferItems) :
              i # j => mProducerBufferItems[i].buffer # mProducerBufferItems[j].buffer
        /\ mConsumerBufferItem.buffer \notin ProducerBuffers
        /\ ProducerBuffers \cup {mConsumerBufferItem.buffer} = BufferIds
        /\ getFreeBufferIfAvailable(mProducerBufferItems).buffer
              # mConsumerBufferItem.buffer
        /\ mConsumerBufferItem.buffer \notin RequestedBuffers

\* The consumer has swapped its first buffer away while requests are queued and a
\* producer slot is Free.
C21_Witness ==
    /\ PoolAllocated
    /\ mConsumerBufferItem.buffer # ConstructedConsumerItem.buffer
    /\ mConsumerBufferItem.state = IN_USE
    /\ mRequestQueue # <<>>
    /\ getFreeBufferIfAvailable(mProducerBufferItems).buffer >= 0

\* The step is the part of an operation that changes slot states: the acquire of
\* SdkFrameProvider::encodeImage, the end of SdkFrameProvider::onEncoded (success or
\* not), the scan and swap of getFilledBufferAndSwap.
StepIsAcquire == ingressPc = "provider" /\ ingressPc' = "queueRequest"

StepIsQueueFilled(buffer) ==
    /\ encoderPc = "hostReturnImage" /\ encoderPc' # "hostReturnImage"
    /\ workerRequest.success /\ workerRequest.buffer = buffer

StepIsCancel(buffer) ==
    /\ encoderPc = "hostReturnImage" /\ encoderPc' # "hostReturnImage"
    /\ ~workerRequest.success /\ workerRequest.buffer = buffer

StepIsConsumerTake ==
    /\ listenerPc = "take" /\ takePc \in {"locked", "waiting"}
    /\ encoderPc' = encoderPc /\ ingressPc' = ingressPc

\* The transition of producer slot i in this step is one of the pool's lifecycle.
SlotStepAllowed(i) ==
    LET before == mProducerBufferItems[i]
        after == mProducerBufferItems'[i]
    IN
    \/ before.state = after.state /\ before.buffer = after.buffer
    \/ /\ before.state = FREE /\ after.state = IN_USE
       /\ StepIsAcquire
       /\ after.buffer = before.buffer
       /\ ingressCall'.buffer = before.buffer
    \/ /\ before.state = IN_USE /\ after.state = FILLED
       /\ StepIsQueueFilled(before.buffer)
       /\ after.buffer = before.buffer
    \/ /\ before.state = IN_USE /\ after.state = FREE
       /\ StepIsCancel(before.buffer)
       /\ after.buffer = before.buffer
    \/ /\ before.state = FILLED /\ after.state = FREE
       /\ StepIsConsumerTake
       /\ ~StepIsCancel(before.buffer)
       /\ after.buffer \in {before.buffer, mConsumerBufferItem.buffer}

\* C22: over all interleavings of the host, encoder and listener threads a producer slot
\* goes Free -> InUse only through getFreeBufferIfAvailable, InUse -> Filled only through
\* queueFilledBuffer, InUse -> Free only through cancelBuffer, and Filled -> Free only
\* through the consumer's swap or its newest-wins demotion, never through cancelBuffer;
\* no other transition happens.
C22_SlotLifecycle ==
    [][(PoolAllocated /\ PoolAllocated') =>
          \A i \in 1..Len(mProducerBufferItems) : SlotStepAllowed(i)]_vars

\* Every image of the run has been offered, the consumer has swapped a Filled buffer
\* out of the pool, and the three producer slots are in three different states.
C22_Witness ==
    /\ PoolAllocated
    /\ mConsumerBufferItem.buffer # ConstructedConsumerItem.buffer
    /\ \E i \in 1..Len(mProducerBufferItems) : mProducerBufferItems[i].state = IN_USE
    /\ \E i \in 1..Len(mProducerBufferItems) : mProducerBufferItems[i].state = FILLED
    /\ \E i \in 1..Len(mProducerBufferItems) : mProducerBufferItems[i].state = FREE
    /\ calls = MaxImages

\* How many live EncodeRequests have `buffer` as their destination.
RequestsFor(buffer) ==
    Cardinality({i \in 1..Len(mRequestQueue) : mRequestQueue[i].buffer = buffer})
    + (IF buffer \in WorkerBuffers THEN 1 ELSE 0)
    + (IF buffer \in PendingIngressBuffers THEN 1 ELSE 0)

\* C23: every InUse producer slot is the destination of exactly one EncodeRequest that
\* is held by encodeImage before the enqueue, queued, or being encoded (so no slot is
\* InUse once its request has been consumed), and the request queue never holds more
\* than NUM_BUFFERS_ALLOC - 1 requests.
C23_InUseHasOneRequest ==
    /\ PoolAllocated =>
          \A i \in 1..Len(mProducerBufferItems) :
              mProducerBufferItems[i].state = IN_USE
                  => RequestsFor(mProducerBufferItems[i].buffer) = 1
    /\ Len(mRequestQueue) <= NUM_BUFFERS_ALLOC - 1

\* C24: when the encoder is shut down, every request still in mRequestQueue, one
\* enqueued while the shutdown is under way included, has been removed and reported
\* through onEncoded(false) by the time the worker thread has ended, so that the join
\* finds the queue empty.
C24_ShutdownDrainsQueue == encoderPc = "exited" => mRequestQueue = <<>>

(***************************************************************************)
(* Properties of the encoder worker (Spec)                                 *)
(***************************************************************************)
\* The state of the producer slot that holds `buffer`, "NONE" if no slot does.
SlotStateOf(items, buffer) ==
    LET i == FindProducerItem(items, buffer, 0) IN
    IF i < 0 THEN "NONE" ELSE items[i + 1].state

\* The step in which Encoder::encode fails for the request of the worker and calls
\* onEncoded with success = false.
EncodeFails ==
    encoderPc = "encode" /\ encoderPc' = "returnImage" /\ ~workerRequest'.success

\* The step that ends onEncoded for a request reported with success = false.
FailureReported ==
    encoderPc = "hostReturnImage" /\ encoderPc' # "hostReturnImage" /\ ~workerRequest.success

SetCurStep == lastEvent'.type = "SETUP" /\ lastEvent'.request.bRequest = "SET_CUR"

\* ... a class SET_CUR to the streaming interface that names PROBE or COMMIT, the one
\* request for which processSetupStreamingEvent writes mCurrentControlState.
LatchingSetCurStep ==
    /\ SetCurStep
    /\ lastEvent'.request.type = "CLASS"
    /\ lastEvent'.request.recip = "INTERFACE"
    /\ lastEvent'.request.interface = STREAMING_INTERFACE_IDX
    /\ lastEvent'.request.controlSelect \in {UVC_VS_PROBE_CONTROL, UVC_VS_COMMIT_CONTROL}

\* What the claim says of the selector apart from SET_CUR: it is one of Undefined,
\* Probe and Commit, it is Undefined before the first event, and a DATA event that
\* finds it Undefined changes no negotiated state.
SelectorWellFormed ==
    /\ mCurrentControlState \in ControlSelectors
    /\ mCurrentControlState' \in ControlSelectors
    /\ lastEvent = NoEvent => mCurrentControlState = UVC_VS_CONTROL_UNDEFINED
    /\ (lastEvent'.type = "DATA" /\ mCurrentControlState = UVC_VS_CONTROL_UNDEFINED)
          => UNCHANGED <<mProbe, mCommit, mV4l2Format, mFps, mCurrentControlState>>

\* C26: the current control selector is always Undefined, Probe or Commit; it is
\* Undefined at first, is set to the selector named in wValue by every SET_CUR request
\* and by nothing else, and a DATA event that finds it Undefined changes no state.
C26_SelectorLatchedByEverySetCur ==
    [][/\ SelectorWellFormed
       /\ SetCurStep => mCurrentControlState' = lastEvent'.request.controlSelect
       /\ ~SetCurStep => UNCHANGED mCurrentControlState]_vars

\* C26, amended: as above, but the selector is set by those SET_CUR requests only that
\* name Probe or Commit on the streaming interface; any other SET_CUR leaves it as it
\* is, like every other event.
C26_SelectorLatchedByValidSetCur ==
    [][/\ SelectorWellFormed
       /\ LatchingSetCurStep => mCurrentControlState' = lastEvent'.request.controlSelect
       /\ ~LatchingSetCurStep => UNCHANGED mCurrentControlState]_vars

\* SET_CUR(COMMIT) has moved the selector from Probe, under which a DATA event had
\* written mProbe, to Commit.
C26_Witness ==
    /\ lastEvent.type = "SETUP"
    /\ lastEvent.request.bRequest = "SET_CUR"
    /\ lastEvent.request.controlSelect = UVC_VS_COMMIT_CONTROL
    /\ mCurrentControlState = UVC_VS_COMMIT_CONTROL
    /\ mProbe # ZeroStreamingControl

(***************************************************************************)
(* Properties of the data path towards the gadget driver (SpecLife)        *)
(***************************************************************************)
\* The steps of getFrameAndQueueBufferToGadgetDriver: the VIDIOC_STREAMON ioctl of the
\* first buffer, the entry into getFilledBufferAndSwap, its return with a buffer, and
\* the VIDIOC_QBUF ioctl.
StreamOnIssued == listenerPc = "streamOnIoctl" /\ listenerPc' # "streamOnIoctl"

ConsumerCalled == listenerPc # "take" /\ listenerPc' = "take"

FrameObtained == listenerPc = "take" /\ listenerPc' = "qbuf"

BufferQueued == listenerPc = "qbuf" /\ listenerPc' # "qbuf"

\* UVCProvider::watchStreamEvent: EPOLLOUT joins the events of the V4L2 descriptor.
InterestWidened == ~mEpollOut /\ mEpollOut'

\* The consumer has the first frame of the session in hand.
FirstFrameInHand == listenerOp = "STREAMON" /\ mConsumerBufferItem.state = IN_USE

\* What holds of a STREAMON whichever way round the first two steps are: the frame is
\* obtained by the consumer side (which returns only with a Filled buffer), that buffer
\* is queued next, and interest is widened only by the successful queueing of it.
FirstBufferQueuedThenWatched ==
    /\ (FrameObtained /\ listenerOp = "STREAMON") => ~mEpollOut /\ FirstFrameInHand'
    /\ (BufferQueued /\ listenerOp = "STREAMON") => FirstFrameInHand
    /\ InterestWidened => BufferQueued /\ FirstFrameInHand

\* C27: while handling STREAMON the consumer side of the pool is called first and blocks
\* until the first Filled frame is there; VIDIOC_STREAMON is issued only after that
\* frame has been obtained; then the buffer is queued, and only then is the poller's
\* interest widened.
C27_FrameBeforeStreamOn ==
    [][/\ StreamOnIssued => FirstFrameInHand
       /\ FirstBufferQueuedThenWatched]_vars

\* C27, amended: VIDIOC_STREAMON is issued first, with no frame taken from the pool; if
\* it fails the handler ends there, and only when it has succeeded is the consumer side
\* called, which blocks until the first Filled frame is there; then the buffer is
\* queued, and only then is the poller's interest widened.
C27_StreamOnBeforeFrame ==
    [][/\ StreamOnIssued =>
             /\ ~FirstFrameInHand
             /\ listenerPc' \in {"take", "idle"}
             /\ UNCHANGED <<poolVars, mEpollOut>>
       /\ (ConsumerCalled /\ listenerOp = "STREAMON") => StreamOnIssued
       /\ FirstBufferQueuedThenWatched]_vars

\* The first buffer of a session has been queued and EPOLLOUT is watched.
C27_Witness ==
    /\ mEpollOut
    /\ mFrameProvider
    /\ listenerPc = "idle"
    /\ mConsumerBufferItem.state = IN_USE

\* A session exists whose BufferManager holds its allocated buffers.
SessionWithLivePool == mUVCDevice /\ mFrameProvider /\ PoolAllocated

\* The listener enters processStreamEvent in this step: for an EPOLLOUT entry, or for
\* the EPOLLOUT bit of an entry whose EPOLLPRI it has just handled.
WritableHandlerRuns == listenerPc # "streamEvent" /\ listenerPc' = "streamEvent"

\* C28: EPOLLOUT is watched only while a session with a live pool exists: interest is
\* widened only after a STREAMON has queued its first buffer, and narrowed when a
\* STREAMOFF has been handled; and processStreamEvent never runs while the pool or the
\* device is absent, also when one epoll entry carries both EPOLLPRI and EPOLLOUT.
C28_WritableOnlyWithLivePool ==
    [][/\ (listenerPc' = "idle" /\ mEpollOut') => SessionWithLivePool'
       /\ InterestWidened => (BufferQueued /\ FirstFrameInHand)
       /\ StreamOffProcessed => ~mEpollOut'
       /\ WritableHandlerRuns => (mUVCDevice' /\ PoolAllocated')]_vars

\* The buffers the gadget driver owns: queued by VIDIOC_QBUF and not yet dequeued.
DriverOwned == {driverQueue[i] : i \in 1..Len(driverQueue)}

\* C29: every buffer passed to VIDIOC_QBUF is the pool's consumer buffer, held in state
\* IN_USE; the driver owns at most one buffer at a time; and a buffer the driver owns is
\* in no producer slot, so that it is neither handed out by getFreeBufferIfAvailable
\* nor the destination of an EncodeRequest.
C29_DriverOwnsConsumerBuffer ==
    [][/\ BufferQueued =>
             /\ mConsumerBufferItem.state = IN_USE
             /\ mConsumerBufferItem.buffer \in BufferIds
             /\ driverQueue' \in {driverQueue, <<mConsumerBufferItem.buffer>>}
       /\ Len(driverQueue') <= 1
       /\ \A buffer \in DriverOwned' :
             /\ buffer = mConsumerBufferItem'.buffer
             /\ mConsumerBufferItem'.state = IN_USE
             /\ buffer \notin ProducerBuffers'
             /\ buffer \notin RequestedBuffers'
             /\ getFreeBufferIfAvailable(mProducerBufferItems').buffer # buffer]_vars

\* The stream is running: the driver owns the consumer's buffer, which is not the first
\* one of the session, while the encoder writes into a producer buffer and another
\* producer slot is Free.
C29_Witness ==
    /\ driverQueue = <<mConsumerBufferItem.buffer>>
    /\ mEpollOut
    /\ listenerPc = "idle"
    /\ lastDelivered > 0
    /\ ConstructedConsumerItem.buffer \in ProducerBuffers
    /\ encoderPc = "encode"
    /\ getFreeBufferIfAvailable(mProducerBufferItems).buffer >= 0


(***************************************************************************)
(* The poller under failing ioctls (SpecPoll): a running service in which  *)
(* control events arrive during streaming as well, and VIDIOC_DQEVENT,     *)
(* UVCIOC_SEND_RESPONSE, VIDIOC_DQBUF and VIDIOC_QBUF may each fail.       *)
(***************************************************************************)
GetCurProbe ==
    CtrlRequest("CLASS", "INTERFACE", STREAMING_INTERFACE_IDX, "GET_CUR",
                UVC_VS_PROBE_CONTROL, SizeofStreamingControl)

\* The SETUP requests the host sends while the listener waits in epoll.
PollSetupRequests == {GetCurProbe, SetCurCommit}

NextPoll ==
    \/ (calls < MaxLifeImages /\ EncodeImageEnter(1))
    \/ EncodeImageReadDevice
    \/ \E ub \in {"crash", "value"} : EncodeImageReadProvider(ub)
    \/ \E lockOk \in BOOLEAN : EncodeImageAcquire(lockOk)
    \/ EncodeImageQueueRequest
    \/ EncoderLoop
    \/ EncoderWake
    \/ \E success \in BOOLEAN : EncoderEncode(success)
    \/ EncoderReturnImageEnter
    \/ EncoderReturnImageLeave
    \/ EncoderDrain
    \/ (ListenerAtEpoll /\ CtlNoEvent("DQEVENT_FAILED"))
    \/ (ListenerAtEpoll /\ \E request \in PollSetupRequests, sent \in BOOLEAN :
                              CtlSetupEvent(request, sent))
    \/ \E allocOk \in BOOLEAN : ProcessStreamOnEvent(allocOk)
    \/ AssignFrameProvider
    \/ ListenerHostCallEnter
    \/ ListenerHostCallLeave
    \/ \E ok \in BOOLEAN : StreamOnIoctl(ok)
    \/ TakeFilledBuffer
    \/ \E ok \in BOOLEAN : QueueBufferToGadget(ok)
    \/ ListenerWritableEvent
    \/ \E dqOk \in BOOLEAN : ProcessStreamEvent(dqOk)
    \/ \E ok \in BOOLEAN : ProcessStreamOffEvent(ok, FALSE)
    \/ ResetFrameProvider
    \/ JoinEncoderThread
    \/ ModifyEpollEvents
    \/ \E ok \in BOOLEAN : StopServiceEvent("DISCONNECT", <<>>, ok)
    \/ SignalStopService
    \/ ResetUVCDevice
    \/ ListenerAfterStop
    \/ JniStopService

SpecPoll == InitService /\ [][NextPoll]_vars

\* processStreamEvent returns because VIDIOC_DQBUF failed.
DqbufFailed ==
    listenerPc = "streamEvent" /\ listenerPc' # "streamEvent" /\ driverQueue' = driverQueue

\* getFrameAndQueueBufferToGadgetDriver returns because VIDIOC_QBUF failed.
QbufFailed == BufferQueued /\ driverQueue' = driverQueue

\* processUVCEvent returns because VIDIOC_DQEVENT failed.
DqeventFailed == lastEvent' # lastEvent /\ lastEvent'.type = "DQEVENT_FAILED"

\* processUVCEvent has handled a SETUP event and UVCIOC_SEND_RESPONSE failed.
SendResponseFailed ==
    lastEvent' # lastEvent /\ lastEvent'.type = "SETUP" /\ ~lastEvent'.sent

\* The listener is back in its loop, waiting in epoll with the loop flag set.
PollerKeepsRunning == listenerPc' = "idle" /\ mListenToUVCFds' /\ mUVCDevice' /\ ~crashed'

\* The session is what it was: the pool and its slots, the frame provider with its
\* encoder, its queue and its worker, the committed format, and the watched events.
SessionUntouched ==
    UNCHANGED <<poolVars, mFrameProvider, mEpollOut, encVars, hardwareBuffers, mCommit,
                mV4l2Format, mFps, mServiceRunning, jniLog, sessions>>

\* C30: a failing VIDIOC_DQBUF, VIDIOC_QBUF, VIDIOC_DQEVENT or UVCIOC_SEND_RESPONSE
\* ends the handling of the current event only: the session (pool, encoder, committed
\* format) is left as it is and the listener goes back to epoll; a failed DQEVENT
\* changes no control state, and a failed DQBUF takes no buffer and changes no slot.
C30_TransientFailureKeepsSession ==
    [][/\ (DqbufFailed \/ QbufFailed \/ DqeventFailed \/ SendResponseFailed) =>
             (PollerKeepsRunning /\ SessionUntouched)
       /\ DqeventFailed =>
             UNCHANGED <<formats, mProbe, mCommit, mCurrentControlState, mV4l2Format, mFps,
                         ctlFault>>
       /\ DqbufFailed => UNCHANGED <<poolVars, takePc, driverQueue, lastDelivered>>]_vars

\* A session after failed ioctls: the last control event was a VIDIOC_DQEVENT that
\* failed, a VIDIOC_QBUF has failed during streaming (the consumer holds a buffer the
\* driver was not given), and the session is up with the listener back in epoll.
C30_Witness ==
    /\ lastEvent.type = "DQEVENT_FAILED"
    /\ mFrameProvider /\ mEpollOut /\ listenerPc = "idle"
    /\ mConsumerBufferItem.state = IN_USE
    /\ driverQueue = <<>>
    /\ encoderPc # "none"

(***************************************************************************)
(* Properties of the filesystem watch (SpecLife)                           *)
(***************************************************************************)
\* processINotifyEvent has read an IN_ATTRIB event and access() has found the node.
WatchEventNodePresent == listenerOp # "INOTIFY" /\ listenerOp' = "INOTIFY"

\* stopService is begun from processINotifyEvent.
WatchEventStopsService == listenerOp # "UNLINK" /\ listenerOp' = "UNLINK"

\* C31: on an inotify event the node's existence is checked: stopService runs only if
\* the node is gone; if it is still there nothing is torn down, and the listener is
\* back in its loop, where it goes on to handle later V4L2 and inotify events.
C31_WatchEventChecksNode ==
    [][/\ WatchEventNodePresent =>
             /\ UNCHANGED <<poolVars, devVars, encVars, svcVars, mListenToUVCFds, jniLog>>
             /\ listenerPc' = "idle"
       /\ WatchEventStopsService => listenerPc' \in {"reset", "signal"}]_vars

(***************************************************************************)
(* Properties of the teardown of a session (SpecLife)                      *)
(***************************************************************************)
\* ~SdkFrameProvider calls stopStreaming: the host is told to stop streaming.
StopStreamingCalled == listenerPc = "call_stopStreaming" /\ listenerPc' = "in_stopStreaming"

\* ~Encoder has joined the worker thread: the Encoder is destroyed.
EncoderDestroyed == encoderPc # "none" /\ encoderPc' = "none"

\* ~BufferManager has run: the buffers are unmapped and given back to the driver.
PoolDestroyed == PoolAllocated /\ ~PoolAllocated'

\* EPOLLOUT of the V4L2 descriptor is taken out of what epoll watches.
InterestNarrowed == mEpollOut /\ ~mEpollOut'

\* The encoder worker does not exist, or has returned from encodeThreadLoop.
WorkerCannotWrite == encoderPc \in {"none", "exited"}

\* What holds of every teardown wherever the notification comes: the Encoder is
\* destroyed by the listener's join of a worker that has ended; the pool is destroyed
\* only when the worker has ended and the Encoder is gone, and before interest is
\* narrowed; and the interest of a session whose frame provider has been reset is
\* narrowed only after its encoder and pool are destroyed.
EncoderThenPoolThenInterest ==
    /\ EncoderDestroyed => encoderPc = "exited" /\ listenerPc = "join"
    /\ PoolDestroyed => WorkerCannotWrite /\ encoderPc' = "none" /\ UNCHANGED mEpollOut
    /\ (InterestNarrowed /\ ~mFrameProvider) => encoderPc = "none" /\ ~PoolAllocated

Mul16(a, b) ==
    LET p1 == a * (b % 256)
        p2 == a * (b \div 256)
        x == p1 + (p2 % 256) * 256
    IN <<(p2 \div 256) + (x \div 65536), x % 65536>>

\* The exact product of two 32-bit values, as four 16-bit limbs, highest first.
WideMul(n, k) ==
    LET ll == Mul16(n[2], k[2])
        lh == Mul16(n[2], k[1])
        hl == Mul16(n[1], k[2])
        hh == Mul16(n[1], k[1])
        s1 == ll[1] + lh[2] + hl[2]
        s2 == (s1 \div 65536) + lh[1] + hl[1] + hh[2]
    IN <<(s2 \div 65536) + hh[1], s2 % 65536, s1 % 65536, ll[2]>>

\* n * k in uint32_t arithmetic: the low 32 bits of the product.
U32Mul(n, k) == SubSeq(WideMul(n, k), 3, 4)

\* Long division of a number given by its 16-bit limbs by d, 0 < d <= 32768.
RECURSIVE DivideLimbs(_, _, _)
DivideLimbs(limbs, rem, d) ==
    IF limbs = <<>>
    THEN <<>>
    ELSE LET cur == rem * 65536 + Head(limbs)
         IN <<cur \div d>> \o DivideLimbs(Tail(limbs), cur % d, d)

V4L2_FRMIVAL_TYPE_DISCRETE == "DISCRETE"
V4L2_FRMIVAL_TYPE_CONTINUOUS == "CONTINUOUS"
V4L2_FRMIVAL_TYPE_STEPWISE == "STEPWISE"

\* struct v4l2_frmivalenum as VIDIOC_ENUM_FRAMEINTERVALS fills it: the type and the
\* fraction (discrete, or stepwise.min), numerator as a uint32_t.
FrmIvalEnum(type, numerator, denominator) ==
    [type |-> type, numerator |-> numerator, denominator |-> denominator]

\* getFrameIntervals, the value stored for one answer of the driver.
ival(intervalDesc) ==
    CASE intervalDesc.type = V4L2_FRMIVAL_TYPE_DISCRETE ->
            DivideLimbs(U32Mul(intervalDesc.numerator, U32(FRAME_INTERVAL_NUM)), 0,
                        intervalDesc.denominator)
      [] intervalDesc.type = V4L2_FRMIVAL_TYPE_STEPWISE ->
            DivideLimbs(intervalDesc.numerator, 0, intervalDesc.denominator)
      [] OTHER -> U32(0)

\* The fractions the driver answers with: 1/30 s, 1/60 s, 2/15 s, 1001/30000 s
\* (29.97 fps), 1001/1000 s, and numerators on both sides of 2^32 / 10^7. A driver does
\* not report a zero denominator.
IntervalNumerators == {U32(1), U32(2), U32(429), U32(430), U32(1001)}
IntervalDenominators == {1, 15, 30, 60, 1000, 30000}
FrmIvalEnums ==
    {FrmIvalEnum(type, numerator, denominator) :
        type \in {V4L2_FRMIVAL_TYPE_DISCRETE, V4L2_FRMIVAL_TYPE_CONTINUOUS,
                  V4L2_FRMIVAL_TYPE_STEPWISE},
        numerator \in IntervalNumerators, denominator \in IntervalDenominators}

\* The device under construction: one format with one frame, whose intervals are being
\* enumerated.
InitIval ==
    /\ formats = <<[formatIndex |-> 0, fcc |-> V4L2_PIX_FMT_YUYV,
                    frames |-> <<[index |-> 0, width |-> 320, height |-> 240,
                                  intervals |-> <<>>]>>]>>
    /\ mProbe = ZeroStreamingControl
    /\ mCommit = ZeroStreamingControl
    /\ mCurrentControlState = UVC_VS_CONTROL_UNDEFINED
    /\ mV4l2Format = ZeroV4l2Format
    /\ mFps = 0
    /\ ctlFault = "none"
    /\ lastEvent = NoEvent
    /\ InitNoPool
    /\ mServiceRunning = FALSE
    /\ mUVCDevice = FALSE
    /\ InitNoSession

\* getFrameIntervals, one turn of its loop: VIDIOC_ENUM_FRAMEINTERVALS succeeds with
\* intervalDesc and the value is appended to frame->intervals.
GetFrameInterval(intervalDesc) ==
    /\ Len(formats[1].frames[1].intervals) < MaxIntervals
    /\ formats' = [formats EXCEPT ![1].frames[1].intervals = Append(@, ival(intervalDesc))]
    /\ lastEvent' = [type |-> "FRMIVAL", intervalDesc |-> intervalDesc]
    /\ UNCHANGED <<mProbe, mCommit, mCurrentControlState, mV4l2Format, mFps, ctlFault>>
    /\ UNCHANGED nonCtlVars

NextIval == \E intervalDesc \in FrmIvalEnums : GetFrameInterval(intervalDesc)

SpecIval == InitIval /\ [][NextIval]_vars

\* The interval stored last, and the fraction it was computed from.
LastInterval == formats[1].frames[1].intervals[Len(formats[1].frames[1].intervals)]

\* numerator * 10,000,000 / denominator, exactly, as four 16-bit limbs.
In100ns(intervalDesc) ==
    DivideLimbs(WideMul(intervalDesc.numerator, U32(FRAME_INTERVAL_NUM)), 0,
                intervalDesc.denominator)

\* C33: every interval stored in the catalogue is in 100 ns units: a discrete interval
\* numerator/denominator is stored as numerator * 10,000,000 / denominator, and a
\* stepwise one as its minimum converted in the same way, for every numerator and
\* denominator the driver reports.
C33_IntervalsIn100ns ==
    (/\ lastEvent.type = "FRMIVAL"
     /\ lastEvent.intervalDesc.type \in {V4L2_FRMIVAL_TYPE_DISCRETE,
                                         V4L2_FRMIVAL_TYPE_STEPWISE}) =>
        <<0, 0>> \o LastInterval = In100ns(lastEvent.intervalDesc)

(***************************************************************************)
(* Properties of getFreeBufferIfAvailable in the running service (Spec)    *)
(***************************************************************************)
\* getFreeBufferIfAvailable has returned nullptr to encodeImage in this step.
AcquireReturnsNull ==
    /\ ingressPc = "provider" /\ ingressPc' = "idle"
    /\ lastIngress'.outcome = "NO_FREE_SLOT"

\* The producer slot with the lowest index among the Free ones is slot i.
LowestFreeSlot(i) ==
    /\ mProducerBufferItems[i].state = FREE
    /\ \A j \in 1..(i - 1) : mProducerBufferItems[j].state # FREE

\* C34: getFreeBufferIfAvailable returns the Free producer slot of lowest index and
\* marks it IN_USE in the same step; it returns null, changing nothing, when no producer
\* slot is Free; and what it returns is never the consumer buffer, a buffer of an
\* IN_USE or FILLED slot, or a buffer another caller, the worker or the driver holds.
C34_AcquireFirstFreeOrNull ==
    [][/\ StepIsAcquire =>
             \E i \in 1..Len(mProducerBufferItems) :
                /\ LowestFreeSlot(i)
                /\ ingressCall'.buffer = mProducerBufferItems[i].buffer
                /\ mProducerBufferItems' = [mProducerBufferItems EXCEPT ![i].state = IN_USE]
                /\ mConsumerBufferItem' = mConsumerBufferItem
                /\ ingressCall'.buffer # mConsumerBufferItem.buffer
                /\ ingressCall'.buffer \notin RequestedBuffers \cup DriverOwned
       /\ AcquireReturnsNull =>
             /\ \A i \in 1..Len(mProducerBufferItems) : mProducerBufferItems[i].state # FREE
             /\ UNCHANGED poolVars]_vars

\* Both outcomes have happened: the last call found no Free slot among three producer
\* slots that earlier calls had taken, while the consumer holds a buffer of its own.
C34_Witness ==
    /\ lastIngress.outcome = "NO_FREE_SLOT"
    /\ ingressPc = "idle"
    /\ PoolAllocated
    /\ \A i \in 1..Len(mProducerBufferItems) : mProducerBufferItems[i].state # FREE
    /\ \E i \in 1..Len(mProducerBufferItems) : mProducerBufferItems[i].state = FILLED
    /\ Cardinality(accepted) >= NUM_BUFFERS_ALLOC - 1

(***************************************************************************)
(* Properties of onDestroy (SpecLife)                                      *)
(***************************************************************************)
\* onDestroy returns in this step: its lock_guard is released.
OnDestroyReturns == mainPc = "join" /\ mainPc' = "idle"

\* The thread inside onDestroy waits in join for the listener, which waits for
\* mSerializationLock, which the thread inside onDestroy holds.
JoinWaitsForLockWaiter ==
    /\ mainPc = "join"
    /\ mSerializationLock = "main"
    /\ WaitsForSerializationLock

\* The thread inside onDestroy locks mSerializationLock, which it holds itself.
LocksOwnLock ==
    /\ mainPc \in {"call_stopStreaming", "deadlocked"}
    /\ mSerializationLock = "main"

\* C35: onDestroy terminates from every state of a running service: when it returns the
\* provider is destroyed, the service is not running and the lock is free, and on the way
\* no thread waits for a lock held by a thread that waits for it, or by itself.
C35_OnDestroyTerminates ==
    [][/\ OnDestroyReturns =>
             /\ ~mServiceRunning'
             /\ ~mUVCDevice'
             /\ mSerializationLock' = "free"
       /\ ~JoinWaitsForLockWaiter'
       /\ ~LocksOwnLock']_vars

(***************************************************************************)
(* Properties of commitControls (SpecCtl)                                  *)
(***************************************************************************)
\* C36: whenever commitControls runs, on a DATA event under selector COMMIT after any
\* events and with any payload, mCommit.bFormatIndex is in 1..numFormats,
\* mCommit.bFrameIndex is in 1..numFrames of that format and mCommit.dwFrameInterval is
\* not 0: the catalogue is indexed in range and the division for mFps is by a non-zero.
C36_CommitIndicesInRange ==
    [][ DataEventUnder(UVC_VS_COMMIT_CONTROL) =>
          /\ mCommit'.bFormatIndex \in 1..Len(formats)
          /\ mCommit'.bFrameIndex \in 1..Len(formats[mCommit'.bFormatIndex].frames)
          /\ mCommit'.dwFrameInterval # U32(0)
          /\ ctlFault' \notin {"out_of_bounds", "division_by_zero"}
      ]_vars

(***************************************************************************)
(* Properties of the listener after stopService (SpecLife)                 *)
(***************************************************************************)
\* ListenToUVCFds goes on after stopService has returned with mUVCDevice null.
ListenerGoesOnAfterStop == listenerPc = "afterStop" /\ listenerPc' # "afterStop"

\* C37: once stopService has set mUVCDevice to null on the listener thread, after a
\* DISCONNECT or the removal of the node, the listener does not dereference mUVCDevice
\* again: whatever entries the batch holds behind the one that stopped the service, none
\* is handled through the null pointer, and the listener leaves its loop.
C37_NoUseOfDeviceAfterStop ==
    [][ListenerGoesOnAfterStop =>
          /\ ~mUVCDevice
          /\ listenerPc' = "done"
          /\ listenerPc' # "nullDeref"
          /\ crashed' = crashed]_vars

(***************************************************************************)
(* Properties of the returnImage notification (Spec)                       *)
(***************************************************************************)
\* The worker is done with its request in this step.
RequestFinished == workerRequest # NoRequest /\ workerRequest' = NoRequest

\* The worker thread ends in this step.
WorkerEnds == encoderPc \notin {"exited", "none"} /\ encoderPc' = "exited"

\* The step ends DeviceAsWebcamServiceManager::returnImage, called from onEncoded for the
\* request of the worker after its hardware buffer was released, the service running.
ReturnImageDelivered ==
    /\ encoderPc = "hostReturnImage"
    /\ mSerializationLock = "encoder"
    /\ mServiceRunning
    /\ hardwareBuffers[workerRequest.image] = "released"

\* The timestamp of a buffer is written in this step by an encodeImage call only, for
\* the buffer it has just acquired, to which no request refers.
StampedByIngressOnly ==
    (DOMAIN mTimestamp' = DOMAIN mTimestamp) =>
        \A b \in DOMAIN mTimestamp :
            mTimestamp'[b] # mTimestamp[b] =>
                /\ StepIsAcquire
                /\ b = ingressCall'.buffer
                /\ mTimestamp'[b] = ingressCall.timestamp
                /\ b \notin RequestedBuffers

\* C38: every accepted encodeImage is answered by exactly one returnImage carrying the
\* timestamp of its request, after the hardware buffer was released, whether the encode
\* succeeded, failed or the request was drained at shutdown: the worker finishes a
\* request only through that call, it ends with no request left in the queue, and the
\* timestamp of the request's buffer is not rewritten in between.
C38_ReturnImageOncePerRequest ==
    [][/\ RequestFinished => ReturnImageDelivered
       /\ WorkerEnds => mRequestQueue' = <<>>
       /\ StampedByIngressOnly]_vars

(***************************************************************************)
(* Properties of the selection in getFilledBufferAndSwap (SpecPool)        *)
(***************************************************************************)
\* filledProducerBufferAvailableLocked has returned false in this step: the consumer
\* goes on to wait on mProducerBufferFilled.
SelectionFindsNone == consumerPc = "locked" /\ consumerPc' = "waiting"

\* filledProducerBufferAvailableLocked has returned true in this step and the buffer of
\* producer slot w has been swapped out to the consumer.
SelectionPicks(w) ==
    /\ consumerPc = "locked" /\ consumerPc' = "idle"
    /\ mProducerBufferItems[w].state = FILLED
    /\ mConsumerBufferItem'.buffer = mProducerBufferItems[w].buffer

\* Producer slot i, FILLED, is FREE after this step with the same buffer in it.
FilledDemoted(i) ==
    /\ mProducerBufferItems[i].state = FILLED
    /\ mProducerBufferItems'[i] = [mProducerBufferItems[i] EXCEPT !.state = FREE]

\* C39: getFilledBufferAndSwap turns a FILLED producer slot FREE only in a selection
\* that picks another FILLED slot, of a greater timestamp or of an equal one and a lower
\* index, whose buffer the call returns; a selection that finds no slot leaves the state
\* of every producer slot as it is.
C39_DemotedOnlyBehindWinner ==
    [][/\ SelectionFindsNone => mProducerBufferItems' = mProducerBufferItems
       /\ \A i \in 1..Len(mProducerBufferItems) :
             FilledDemoted(i) =>
                \E w \in (1..Len(mProducerBufferItems)) \ {i} :
                   /\ SelectionPicks(w)
                   /\ \/ mTimestamp[mProducerBufferItems[w].buffer]
                            > mTimestamp[mProducerBufferItems[i].buffer]
                      \/ /\ mTimestamp[mProducerBufferItems[w].buffer]
                               = mTimestamp[mProducerBufferItems[i].buffer]
                         /\ w < i]_vars

(***************************************************************************)
(* Properties of the shutdown of the encoder worker (SpecLife)             *)
(***************************************************************************)
\* The worker, inside the drain with mRequestLock held, is at the lock_guard of
\* returnImage, and the thread that holds mSerializationLock is inside encodeImage at
\* the unique_lock of queueRequest.
WorkerAndIngressWaitForEachOther ==
    /\ encoderPc = "returnImage"
    /\ mRequestLock = "encoder"
    /\ mSerializationLock = "ingress"
    /\ ingressPc = "queueRequest"

\* The worker is at the lock_guard of returnImage; mSerializationLock is held by the
\* thread inside onDestroy, which waits in join for the listener, which waits in the
\* join of ~Encoder for the worker.
WorkerWaitsBehindOnDestroy ==
    /\ encoderPc = "returnImage"
    /\ mSerializationLock = "main"
    /\ mainPc = "join"
    /\ listenerPc = "join"

\* C40: once mContinueEncoding is cleared the worker thread ends: it finishes at most the
\* request it is encoding, sees the flag within one wait on the condition variable and
\* leaves, so that the join of the destructor returns and the listener's handler with
\* it. Nothing the worker has to pass on its way out is held by a thread that waits,
\* directly or through the listener, for the worker.
C40_WorkerEndsAfterFlagCleared ==
    (~mContinueEncoding /\ encoderPc \notin {"none", "exited"}) =>
        /\ ~WorkerAndIngressWaitForEachOther
        /\ ~WorkerWaitsBehindOnDestroy
====
